---- MODULE Spec2Model ----
(***************************************************************************)
(* Handler composition protocol of go-slogx: the multi, failover,          *)
(* round-robin, conditional and pipe handlers over leaf handlers, their    *)
(* Handle delivery and error policy, the dynamic level operations and      *)
(* Shutdown; the attribute functions of attr.go; the attribute state of    *)
(* the leaf handlers under derivation and concurrent Handle calls; the     *)
(* text form of levels (level.go); and the round-robin cursor and the      *)
(* futures list of the asynchronous handlers under derivation and          *)
(* concurrent Handle calls.                                                *)
(*                                                                         *)
(* Leaf handlers live in a heap (Go pointers); a composite holds the heap  *)
(* ids of its inner handlers.  `call` records what the most recent         *)
(* operation did: which inner handlers received which record, in which     *)
(* order, and what was returned.                                           *)
(***************************************************************************)
EXTENDS Integers, Sequences, FiniteSets, TLC

VARIABLES
    heap,    \* leaf handler objects (Go pointers): heap[id] = [kind, level]
    comps,   \* composite handler objects; comps[1] is the constructed one
    call,    \* the most recent operation on a composite and what it did
    futures, \* background deliveries scheduled by asynchronous Handle calls
    mem,     \* backing arrays of the slices (Go memory)
    procs    \* goroutines in the middle of a call: position and locals

vars == <<heap, comps, call, futures, mem, procs>>

----------------------------------------------------------------------------
(* Bounds *)

NumHandlers == 3
MaxDerived == 2
MaxFutures == 2

----------------------------------------------------------------------------
(* Levels (level.go) and the nil error *)

LevelDebug == -4
LevelInfo == 0
LevelError == 8
LevelPanic == 16

Nil == 0

(* Levels the inner handlers of a delivery specification are configured at *)
HandlerLevels == {LevelInfo, LevelError}

(* Levels and messages of the records emitted *)
RecordLevels == {LevelInfo, LevelError}

Messages == {"a", "b"}

Records == [level : RecordLevels, msg : Messages]

(* What each inner handler's Handle would return if it were called, by     *)
(* position in the configured handler list: TRUE is an error.              *)
Outcomes == [1..NumHandlers -> BOOLEAN]

----------------------------------------------------------------------------
(* Leaf handlers *)

(* fileHandler implements slogx.DynamicLevelHandler; jsonHandler does not  *)
(* (its Level() returns *LevelVar).                                        *)
LeafKinds == {"file", "json"}

IsDynamicLevelHandler(leaf) == leaf.kind = "file"

fileHandler_Enabled(leaf, level) == level >= leaf.level

fileHandler_Level(leaf) == leaf.level

(* The error the inner handler at position pos of the configured list      *)
(* returns from Handle: its own error when the write fails, else nil.      *)
leaf_Handle(pos, fail) == IF fail[pos] THEN pos ELSE Nil

----------------------------------------------------------------------------
(* Composite objects and call records *)

NewComposite(kind, handlers, continueOnError, enableAsync, matcherFns, pipeFns) ==
    [kind |-> kind, handlers |-> handlers, lastIndex |-> 0,
     ContinueOnError |-> continueOnError, EnableAsync |-> enableAsync,
     matcherFns |-> matcherFns, PipeFns |-> pipeFns]

Ids == [i \in 1..NumHandlers |-> i]

NoRecord == [level |-> LevelInfo, msg |-> ""]

NoOutcome == [i \in 1..NumHandlers |-> FALSE]

(* Summary of a call kept for the next one: whether there was one, whether *)
(* every inner handler was enabled and succeeding in it, the position that *)
(* took the record (0: none), and the position of the most recent          *)
(* successful delivery so far (0: none).                                   *)
NoPrev == [n |-> 0, allOk |-> FALSE, target |-> 0, lastOk |-> 0]

NoCall ==
    [op |-> "none", c |-> 0, rec |-> NoRecord, fail |-> NoOutcome,
     scan |-> <<>>, tried |-> <<>>, sent |-> <<>>, ret |-> Nil,
     lastIndex |-> 0, prev |-> NoPrev, piped |-> <<>>,
     level |-> 0, res |-> 0, preHeap |-> <<>>, preComps |-> <<>>]

Target(cl) ==
    IF cl.op = "Handle" /\ cl.tried # <<>> /\ cl.ret = Nil
    THEN cl.tried[Len(cl.tried)] ELSE 0

AllOk(cl) ==
    /\ cl.op = "Handle"
    /\ \A i \in 1..NumHandlers :
         /\ ~cl.fail[i]
         /\ fileHandler_Enabled(heap[comps[cl.c].handlers[i]], cl.rec.level)

Summary(cl) ==
    [n |-> IF cl.op = "Handle" THEN 1 ELSE 0,
     allOk |-> AllOk(cl),
     target |-> Target(cl),
     lastOk |-> IF Target(cl) # 0 THEN Target(cl) ELSE cl.prev.lastOk]

(* tried: positions (in the configured list) of the inner handlers whose   *)
(* Handle was invoked, in order; sent: the record each of them received;   *)
(* scan: the order in which the call considered the positions; piped: the  *)
(* record each pipe function received; level: the level passed to or      *)
(* returned by a level operation; res: the composite WithLevel returned;   *)
(* preHeap, preComps: the objects as they were before WithLevel.           *)
HandleCall(c, rec, fail, scan, tried, sent, ret, prev) ==
    [op |-> "Handle", c |-> c, rec |-> rec, fail |-> fail, scan |-> scan,
     tried |-> tried, sent |-> sent, ret |-> ret,
     lastIndex |-> comps[c].lastIndex, prev |-> prev, piped |-> <<>>,
     level |-> 0, res |-> 0, preHeap |-> <<>>, preComps |-> <<>>]

(* the record of one background delivery scheduled by an asynchronous Handle *)
DeliverCall(c, rec, fail, tried, ret) ==
    [HandleCall(c, rec, fail, <<>>, tried, [j \in 1..Len(tried) |-> rec],
                ret, NoPrev) EXCEPT !.op = "deliver"]

InitHeap(kinds, levels) ==
    heap \in [1..NumHandlers -> [kind : kinds, level : levels]]

----------------------------------------------------------------------------
(* Multi handler (unnamed/part_013) *)

RECURSIVE multiLoop(_, _, _, _)
multiLoop(h, fail, i, tried) ==
    IF i > Len(h.handlers) THEN [tried |-> tried, ret |-> Nil]
    ELSE LET err == leaf_Handle(i, fail) IN
         IF err # Nil /\ ~h.ContinueOnError
         THEN [tried |-> Append(tried, i), ret |-> err]
         ELSE multiLoop(h, fail, i + 1, Append(tried, i))

multiHandler_handle_alwaysAborts(h, fail) ==
    multiLoop([h EXCEPT !.ContinueOnError = FALSE], fail, 1, <<>>)

multiHandler_handle_ignoresOption(h, fail) ==
    multiLoop([h EXCEPT !.ContinueOnError = TRUE], fail, 1, <<>>)

multiHandler_handle(h, fail) == multiLoop(h, fail, 1, <<>>)

SameRecord(rec, tried) == [k \in 1..Len(tried) |-> rec]

(* multiHandler.Handle: synchronous mode runs handle and returns its       *)
(* error; asynchronous mode schedules handle as a future and returns nil.  *)
multiHandler_Handle(c, rec, fail) ==
    /\ comps[c].kind = "multi"
    /\ IF ~comps[c].EnableAsync
       THEN /\ LET r == multiHandler_handle(comps[c], fail) IN
               call' = HandleCall(c, rec, fail, Ids, r.tried,
                                  SameRecord(rec, r.tried), r.ret, NoPrev)
            /\ UNCHANGED futures
       ELSE /\ Len(futures) < MaxFutures
            /\ fail = NoOutcome
            /\ futures' = Append(futures, [c |-> c, rec |-> rec, done |-> FALSE,
                                           tried |-> <<>>, ret |-> Nil])
            /\ call' = HandleCall(c, rec, fail, <<>>, <<>>, <<>>, Nil, NoPrev)
    /\ UNCHANGED <<heap, comps, mem, procs>>

(* The goroutine started by async.Exec runs handle for one scheduled call *)
multiHandler_future(k, fail) ==
    /\ k \in 1..Len(futures)
    /\ ~futures[k].done
    /\ comps[futures[k].c].kind = "multi"
    /\ LET r == multiHandler_handle(comps[futures[k].c], fail) IN
       /\ futures' = [futures EXCEPT ![k] = [@ EXCEPT !.done = TRUE,
                                                      !.tried = r.tried,
                                                      !.ret = r.ret]]
       /\ call' = DeliverCall(futures[k].c, futures[k].rec, fail, r.tried, r.ret)
    /\ UNCHANGED <<heap, comps, mem, procs>>

InitMulti ==
    /\ InitHeap({"file"}, {LevelInfo})
    /\ \E coe \in BOOLEAN, async \in BOOLEAN :
         comps = <<NewComposite("multi", Ids, coe, async, <<>>, <<>>)>>
    /\ call = NoCall
    /\ futures = <<>>
    /\ mem = <<>>
    /\ procs = <<>>

NextMulti ==
    \/ \E rec \in Records, fail \in Outcomes : multiHandler_Handle(1, rec, fail)
    \/ \E k \in 1..MaxFutures, fail \in Outcomes : multiHandler_future(k, fail)

SpecMulti == InitMulti /\ [][NextMulti]_vars

(* Claims about the multi handler *)

SyncMultiCall ==
    /\ call.op = "Handle"
    /\ comps[call.c].kind = "multi"
    /\ ~comps[call.c].EnableAsync

InListOrder(tried) == \A j \in 1..Len(tried) : tried[j] = j

Failing(fail) == {i \in 1..NumHandlers : fail[i]}

MinOf(S) == CHOOSE x \in S : \A y \in S : x <= y

MaxOf(S) == CHOOSE x \in S : \A y \in S : x >= y

(* C1: synchronous multi handler with ContinueOnError=false: the record    *)
(* goes to the inner handlers in list order; when an inner handler returns *)
(* an error, Handle returns that same error and no inner handler after it  *)
(* receives the record; with no error every inner handler receives it.     *)
C1_MultiStopsAtFirstError ==
    (SyncMultiCall /\ ~comps[call.c].ContinueOnError) =>
        /\ InListOrder(call.tried)
        /\ \A j \in 1..Len(call.tried) : call.sent[j] = call.rec
        /\ \A p \in 1..NumHandlers :
             (\A q \in 1..(p - 1) : ~call.fail[q]) =>
                 /\ Len(call.tried) >= p
                 /\ call.fail[p] =>
                      /\ call.ret = leaf_Handle(p, call.fail)
                      /\ call.ret # Nil
                      /\ Len(call.tried) = p
        /\ Failing(call.fail) = {} => call.ret = Nil

C1_Witness ==
    /\ SyncMultiCall /\ ~comps[call.c].ContinueOnError
    /\ ~call.fail[1] /\ call.fail[2]
    /\ call.tried = <<1, 2>>
    /\ call.ret = 2

(* C2 as claimed: synchronous multi handler with ContinueOnError=true:     *)
(* every inner handler receives the record, and if at least one of them    *)
(* returned an error Handle returns the last error encountered.            *)
C2_MultiReturnsLastError ==
    (SyncMultiCall /\ comps[call.c].ContinueOnError) =>
        /\ call.tried = Ids
        /\ Failing(call.fail) # {} =>
             call.ret = leaf_Handle(MaxOf(Failing(call.fail)), call.fail)

(* C2 amended: synchronous multi handler with ContinueOnError=true: every  *)
(* inner handler receives the record, in list order, regardless of earlier *)
(* failures, and Handle returns nil whatever the inner handlers returned.  *)
C2_MultiContinuesAndReturnsNil ==
    (SyncMultiCall /\ comps[call.c].ContinueOnError) =>
        /\ call.tried = Ids
        /\ \A j \in 1..Len(call.tried) : call.sent[j] = call.rec
        /\ call.ret = Nil

C2_Witness ==
    /\ SyncMultiCall /\ comps[call.c].ContinueOnError
    /\ call.fail[2]
    /\ call.tried = Ids
    /\ call.ret = Nil

----------------------------------------------------------------------------
(* Failover handler (handler/failover.go) *)

RECURSIVE failoverLoop(_, _, _, _, _, _)
failoverLoop(h, rec, fail, i, tried, err) ==
    IF i > Len(h.handlers) THEN [tried |-> tried, ret |-> err]
    ELSE IF fileHandler_Enabled(heap[h.handlers[i]], rec.level)
         THEN LET e == leaf_Handle(i, fail) IN
              IF e = Nil THEN [tried |-> Append(tried, i), ret |-> Nil]
              ELSE failoverLoop(h, rec, fail, i + 1, Append(tried, i), e)
         ELSE failoverLoop(h, rec, fail, i + 1, tried, err)

(* a failover that keeps trying after a success *)
RECURSIVE failoverLoop_noReturn(_, _, _, _, _, _)
failoverLoop_noReturn(h, rec, fail, i, tried, err) ==
    IF i > Len(h.handlers) THEN [tried |-> tried, ret |-> err]
    ELSE IF fileHandler_Enabled(heap[h.handlers[i]], rec.level)
         THEN failoverLoop_noReturn(h, rec, fail, i + 1, Append(tried, i),
                                    leaf_Handle(i, fail))
         ELSE failoverLoop_noReturn(h, rec, fail, i + 1, tried, err)

(* a failover that returns the first error instead of the last *)
RECURSIVE failoverLoop_firstError(_, _, _, _, _, _)
failoverLoop_firstError(h, rec, fail, i, tried, err) ==
    IF i > Len(h.handlers) THEN [tried |-> tried, ret |-> err]
    ELSE IF fileHandler_Enabled(heap[h.handlers[i]], rec.level)
         THEN LET e == leaf_Handle(i, fail) IN
              IF e = Nil THEN [tried |-> Append(tried, i), ret |-> Nil]
              ELSE failoverLoop_firstError(h, rec, fail, i + 1, Append(tried, i),
                                           IF err = Nil THEN e ELSE err)
         ELSE failoverLoop_firstError(h, rec, fail, i + 1, tried, err)

failoverHandler_handle_noReturn(h, rec, fail) ==
    failoverLoop_noReturn(h, rec, fail, 1, <<>>, Nil)

failoverHandler_handle_firstError(h, rec, fail) ==
    failoverLoop_firstError(h, rec, fail, 1, <<>>, Nil)

(* the body of failoverHandler.Handle: which handlers it tries, and its    *)
(* return value                                                            *)
failoverHandler_handle(h, rec, fail) == failoverLoop(h, rec, fail, 1, <<>>, Nil)

failoverHandler_Handle(c, rec, fail) ==
    /\ comps[c].kind = "failover"
    /\ LET r == failoverHandler_handle(comps[c], rec, fail) IN
       call' = HandleCall(c, rec, fail, Ids, r.tried,
                          SameRecord(rec, r.tried), r.ret, NoPrev)
    /\ UNCHANGED <<heap, comps, futures, mem, procs>>

InitFailover ==
    /\ InitHeap(LeafKinds, HandlerLevels)
    /\ comps = <<NewComposite("failover", Ids, FALSE, FALSE, <<>>, <<>>)>>
    /\ call = NoCall
    /\ futures = <<>>
    /\ mem = <<>>
    /\ procs = <<>>

NextFailover ==
    \E rec \in Records, fail \in Outcomes : failoverHandler_Handle(1, rec, fail)

SpecFailover == InitFailover /\ [][NextFailover]_vars

(* Claims about the failover handler *)

FailoverCall == call.op = "Handle" /\ comps[call.c].kind = "failover"

EnabledAt(cl) ==
    {i \in 1..NumHandlers :
        fileHandler_Enabled(heap[comps[cl.c].handlers[i]], cl.rec.level)}

Increasing(tried) ==
    \A j, k \in 1..Len(tried) : j < k => tried[j] < tried[k]

Range(seq) == {seq[j] : j \in 1..Len(seq)}

(* the inner handlers that are enabled for the record and would succeed *)
Winners(cl) == {i \in EnabledAt(cl) : ~cl.fail[i]}

(* C3: failover tries the inner handlers in list order; at the first inner *)
(* handler that is enabled for the record's level and whose Handle returns *)
(* no error it returns nil, and no later inner handler receives the record.*)
C3_FailoverStopsAtFirstSuccess ==
    FailoverCall =>
        /\ Increasing(call.tried)
        /\ \A j \in 1..Len(call.tried) : call.sent[j] = call.rec
        /\ Winners(call) # {} =>
             LET w == MinOf(Winners(call)) IN
             /\ call.ret = Nil
             /\ Range(call.tried) = {i \in EnabledAt(call) : i <= w}

C3_Witness ==
    /\ FailoverCall
    /\ EnabledAt(call) = 1..NumHandlers
    /\ call.fail[1] /\ ~call.fail[2]
    /\ call.tried = <<1, 2>>
    /\ call.ret = Nil

(* C4: when every attempted (enabled) inner handler returns an error,      *)
(* failover returns the error of the last inner handler that was actually  *)
(* attempted, and each enabled inner handler was attempted exactly once.   *)
C4_FailoverReturnsLastError ==
    (FailoverCall /\ Winners(call) = {} /\ EnabledAt(call) # {}) =>
        /\ Increasing(call.tried)
        /\ Range(call.tried) = EnabledAt(call)
        /\ call.ret = leaf_Handle(MaxOf(EnabledAt(call)), call.fail)
        /\ call.ret = call.tried[Len(call.tried)]

C4_Witness ==
    /\ FailoverCall
    /\ EnabledAt(call) = {1, 2}
    /\ call.fail[1] /\ call.fail[2]
    /\ call.tried = <<1, 2>>
    /\ call.ret = 2

----------------------------------------------------------------------------
(* Round-robin handler (unnamed/part_011, roundRobinHandler) *)

(* handlers := append(h.handlers[h.lastIndex:], h.handlers[:h.lastIndex]...) *)
(* as positions of the configured list; lastIndex counts from 0.           *)
Rotation(h) ==
    SubSeq(Ids, h.lastIndex + 1, Len(h.handlers)) \o SubSeq(Ids, 1, h.lastIndex)

(* for i, handler := range handlers: i is the index in the rotated list.   *)
(* The result carries the lastIndex the call leaves behind.                *)
RECURSIVE roundRobinLoop(_, _, _, _, _, _, _)
roundRobinLoop(h, rec, fail, rot, i, tried, err) ==
    IF i >= Len(rot)
    THEN [tried |-> tried, ret |-> err, lastIndex |-> h.lastIndex]
    ELSE LET pos == rot[i + 1] IN
         IF fileHandler_Enabled(heap[h.handlers[pos]], rec.level)
         THEN LET e == leaf_Handle(pos, fail) IN
              IF e = Nil
              THEN [tried |-> Append(tried, pos), ret |-> Nil, lastIndex |-> i]
              ELSE roundRobinLoop(h, rec, fail, rot, i + 1, Append(tried, pos), e)
         ELSE roundRobinLoop(h, rec, fail, rot, i + 1, tried, err)

roundRobinHandler_handle(h, rec, fail) ==
    roundRobinLoop(h, rec, fail, Rotation(h), 0, <<>>, Nil)

roundRobinHandler_Handle(c, rec, fail) ==
    /\ comps[c].kind = "roundrobin"
    /\ LET r == roundRobinHandler_handle(comps[c], rec, fail) IN
       /\ call' = HandleCall(c, rec, fail, Rotation(comps[c]), r.tried,
                             SameRecord(rec, r.tried), r.ret, Summary(call))
       /\ comps' = [comps EXCEPT ![c].lastIndex = r.lastIndex]
    /\ UNCHANGED <<heap, futures, mem, procs>>

InitRoundRobin ==
    /\ InitHeap({"file"}, HandlerLevels)
    /\ comps = <<NewComposite("roundrobin", Ids, FALSE, FALSE, <<>>, <<>>)>>
    /\ call = NoCall
    /\ futures = <<>>
    /\ mem = <<>>
    /\ procs = <<>>

NextRoundRobin ==
    \E rec \in Records, fail \in Outcomes : roundRobinHandler_Handle(1, rec, fail)

SpecRoundRobin == InitRoundRobin /\ [][NextRoundRobin]_vars

(* Claims about the round-robin handler *)

RoundRobinCall == call.op = "Handle" /\ comps[call.c].kind = "roundrobin"

(* the configured positions in the order p, p+1, ..., n, 1, ..., p-1 *)
ScanFrom(p) == [k \in 1..NumHandlers |-> ((p + k - 2) % NumHandlers) + 1]

(* C5: if the most recent successful delivery before a Handle call went to *)
(* the inner handler at position p of the configured list, the call scans  *)
(* the handlers in the order p, p+1, ..., n, then the ones before p.       *)
C5_RoundRobinScansFromLastSuccess ==
    (RoundRobinCall /\ call.prev.lastOk # 0) =>
        call.scan = ScanFrom(call.prev.lastOk)

(* C6: when all inner handlers are enabled and succeed, consecutive Handle *)
(* calls are delivered to successive handlers of the list rather than      *)
(* repeatedly to the same one.                                             *)
C6_RoundRobinAdvances ==
    (RoundRobinCall /\ call.prev.n = 1 /\ call.prev.allOk /\ AllOk(call)) =>
        /\ Target(call) # call.prev.target
        /\ Target(call) = (call.prev.target % NumHandlers) + 1

----------------------------------------------------------------------------
(* Conditional handler (handler/conditional.go) *)

(* ConditionMatchesFn values: predicates over the record; "nil" is a nil   *)
(* function value in the list.                                             *)
MatcherFns == {"IsError", "MsgIsA", "nil"}

ConditionMatchesFn(fn, rec) ==
    CASE fn = "IsError" -> rec.level >= LevelError
      [] fn = "MsgIsA" -> rec.msg = "a"

(* the matcher lists a condition is constructed with *)
MatcherLists == {<<>>, <<"MsgIsA", "IsError">>, <<"nil", "MsgIsA">>}

(* the conditions of the asynchronous configurations *)
AsyncMatchers ==
    [i \in 1..NumHandlers |-> IF i = 2 THEN <<"MsgIsA", "IsError">> ELSE <<>>]

(* a matchesAll that stops at the first matcher *)
matchesAll_firstOnly(rec, m) ==
    m = <<>> \/ m[1] = "nil" \/ ConditionMatchesFn(m[1], rec)

matchesAll(rec, m) ==
    \A k \in 1..Len(m) : ~(m[k] # "nil" /\ ~ConditionMatchesFn(m[k], rec))

RECURSIVE conditionalLoop(_, _, _, _, _)
conditionalLoop(h, rec, fail, i, tried) ==
    IF i > Len(h.handlers) THEN [tried |-> tried, ret |-> Nil]
    ELSE IF matchesAll(rec, h.matcherFns[i])
         THEN LET err == leaf_Handle(i, fail) IN
              IF err # Nil /\ ~h.ContinueOnError
              THEN [tried |-> Append(tried, i), ret |-> err]
              ELSE conditionalLoop(h, rec, fail, i + 1, Append(tried, i))
         ELSE conditionalLoop(h, rec, fail, i + 1, tried)

conditionalHandler_handle(h, rec, fail) == conditionalLoop(h, rec, fail, 1, <<>>)

(* conditionalHandler.Handle: synchronous mode runs handle; asynchronous   *)
(* mode schedules it as a future and returns nil.                          *)
conditionalHandler_Handle(c, rec, fail) ==
    /\ comps[c].kind = "conditional"
    /\ IF ~comps[c].EnableAsync
       THEN /\ LET r == conditionalHandler_handle(comps[c], rec, fail) IN
               call' = HandleCall(c, rec, fail, Ids, r.tried,
                                  SameRecord(rec, r.tried), r.ret, NoPrev)
            /\ UNCHANGED futures
       ELSE /\ Len(futures) < MaxFutures
            /\ fail = NoOutcome
            /\ futures' = Append(futures, [c |-> c, rec |-> rec, done |-> FALSE,
                                           tried |-> <<>>, ret |-> Nil])
            /\ call' = HandleCall(c, rec, fail, <<>>, <<>>, <<>>, Nil, NoPrev)
    /\ UNCHANGED <<heap, comps, mem, procs>>

conditionalHandler_future(k, fail) ==
    /\ k \in 1..Len(futures)
    /\ ~futures[k].done
    /\ comps[futures[k].c].kind = "conditional"
    /\ LET r == conditionalHandler_handle(comps[futures[k].c], futures[k].rec, fail) IN
       /\ futures' = [futures EXCEPT ![k] = [@ EXCEPT !.done = TRUE,
                                                      !.tried = r.tried,
                                                      !.ret = r.ret]]
       /\ call' = DeliverCall(futures[k].c, futures[k].rec, fail, r.tried, r.ret)
    /\ UNCHANGED <<heap, comps, mem, procs>>

InitConditional ==
    /\ InitHeap({"file"}, {LevelInfo})
    /\ \E coe \in BOOLEAN, async \in BOOLEAN,
          m \in [1..NumHandlers -> MatcherLists] :
         /\ async => m = AsyncMatchers
         /\ comps = <<NewComposite("conditional", Ids, coe, async, m, <<>>)>>
    /\ call = NoCall
    /\ futures = <<>>
    /\ mem = <<>>
    /\ procs = <<>>

NextConditional ==
    \/ \E rec \in Records, fail \in Outcomes : conditionalHandler_Handle(1, rec, fail)
    \/ \E k \in 1..MaxFutures, fail \in Outcomes : conditionalHandler_future(k, fail)

SpecConditional == InitConditional /\ [][NextConditional]_vars

(* Claims about the conditional handler *)

SyncConditionalCall ==
    /\ call.op = "Handle"
    /\ comps[call.c].kind = "conditional"
    /\ ~comps[call.c].EnableAsync

(* AND over the non-nil matchers of position i, stated on its own *)
Matching(h, rec) ==
    {i \in 1..NumHandlers :
        \A fn \in Range(h.matcherFns[i]) \ {"nil"} : ConditionMatchesFn(fn, rec)}

(* C7 as claimed: a record is delivered to an inner handler only if every  *)
(* predicate of that handler returns true, a handler with no predicates    *)
(* always matches, and every matching handler receives the record, in list *)
(* order.                                                                  *)
C7_ConditionalDeliversToAllMatching ==
    SyncConditionalCall =>
        /\ Increasing(call.tried)
        /\ Range(call.tried) = Matching(comps[call.c], call.rec)

(* what one run of the delivery loop of composite h may do with rec when   *)
(* the inner handlers answer as in fail                                    *)
DeliversUntilError(h, rec, fail, tried, ret) ==
    LET bad == {i \in Matching(h, rec) : fail[i]}
        stop == IF h.ContinueOnError \/ bad = {} THEN NumHandlers ELSE MinOf(bad) IN
    /\ Increasing(tried)
    /\ Range(tried) = {i \in Matching(h, rec) : i <= stop}
    /\ \A i \in 1..NumHandlers :
         h.matcherFns[i] = <<>> /\ i <= stop => i \in Range(tried)
    /\ ret = IF h.ContinueOnError \/ bad = {}
             THEN Nil ELSE leaf_Handle(stop, fail)

(* C7 amended: the record is delivered only to matching handlers, in list  *)
(* order; every matching handler receives it when ContinueOnError is true, *)
(* and when it is false every matching handler up to and including the    *)
(* first matching handler whose Handle returns an error receives it, and   *)
(* the delivery ends with that error.  This holds of a synchronous Handle  *)
(* and of every completed background delivery.                             *)
C7_ConditionalDeliversUntilError ==
    /\ SyncConditionalCall =>
         /\ DeliversUntilError(comps[call.c], call.rec, call.fail,
                               call.tried, call.ret)
         /\ \A j \in 1..Len(call.tried) : call.sent[j] = call.rec
    /\ (call.op = "deliver" /\ comps[call.c].kind = "conditional") =>
         DeliversUntilError(comps[call.c], call.rec, call.fail,
                            call.tried, call.ret)

(* a handler with two predicates, one of them false, is passed over while  *)
(* the handlers around it receive the record                               *)
C7_Witness ==
    /\ SyncConditionalCall
    /\ comps[call.c].matcherFns[2] = <<"MsgIsA", "IsError">>
    /\ call.rec.msg = "a" /\ call.rec.level < LevelError
    /\ call.tried = <<1, 3>>

----------------------------------------------------------------------------
(* Pipe handler (handler/pipe.go) *)

(* PipeHandlerFn values: functions from a record to a record and an error *)
PipeFnNames == {"SetMsgB", "RaiseLevel", "Fail"}

(* the error returned by the pipe function at index j of PipeFns *)
PipeFnError(j) == 0 - j

PipeHandlerFn(fn, j, rec) ==
    CASE fn = "SetMsgB" -> [rec |-> [rec EXCEPT !.msg = "b"], err |-> Nil]
      [] fn = "RaiseLevel" -> [rec |-> [rec EXCEPT !.level = LevelError], err |-> Nil]
      [] fn = "Fail" -> [rec |-> rec, err |-> PipeFnError(j)]

PipeFnLists ==
    {<<>>} \cup {<<f>> : f \in PipeFnNames}
           \cup {<<f, g>> : f \in PipeFnNames, g \in PipeFnNames}

(* record := r.Clone(); for _, fn := range PipeFns { record, err = fn(record) } *)
(* then h.next.Handle(handlerCtx, r)                                       *)
RECURSIVE pipeLoop(_, _, _, _, _, _)
pipeLoop(h, r, fail, j, record, piped) ==
    IF j > Len(h.PipeFns)
    THEN [tried |-> <<1>>, sent |-> <<r>>, ret |-> leaf_Handle(1, fail),
          piped |-> piped]
    ELSE LET out == PipeHandlerFn(h.PipeFns[j], j, record) IN
         IF out.err # Nil /\ ~h.ContinueOnError
         THEN [tried |-> <<>>, sent |-> <<>>, ret |-> out.err,
               piped |-> Append(piped, record)]
         ELSE pipeLoop(h, r, fail, j + 1, out.rec, Append(piped, record))

pipeHandler_handle(h, r, fail) ==
    IF h.handlers = <<>>
    THEN [tried |-> <<>>, sent |-> <<>>, ret |-> Nil, piped |-> <<>>]
    ELSE pipeLoop(h, r, fail, 1, r, <<>>)

pipeHandler_Handle(c, rec, fail) ==
    /\ comps[c].kind = "pipe"
    /\ LET r == pipeHandler_handle(comps[c], rec, fail) IN
       call' = [HandleCall(c, rec, fail, comps[c].handlers, r.tried, r.sent,
                           r.ret, NoPrev) EXCEPT !.piped = r.piped]
    /\ UNCHANGED <<heap, comps, futures, mem, procs>>

InitPipe ==
    /\ InitHeap({"file"}, {LevelInfo})
    /\ \E coe \in BOOLEAN, next \in {<<>>, <<1>>}, fns \in PipeFnLists :
         comps = <<NewComposite("pipe", next, coe, FALSE, <<>>, fns)>>
    /\ call = NoCall
    /\ futures = <<>>
    /\ mem = <<>>
    /\ procs = <<>>

NextPipe ==
    \E rec \in Records, fail \in Outcomes : pipeHandler_Handle(1, rec, fail)

SpecPipe == InitPipe /\ [][NextPipe]_vars

(* Claims about the pipe handler *)

PipeCall == call.op = "Handle" /\ comps[call.c].kind = "pipe"

(* the record after the first j pipe functions, each applied to the result *)
(* of the one before                                                       *)
RECURSIVE Piped(_, _, _)
Piped(fns, j, rec) ==
    IF j = 0 THEN rec
    ELSE PipeHandlerFn(fns[j], j, Piped(fns, j - 1, rec)).rec

(* C8: Handle runs the record through all pipe functions in list order,    *)
(* each function receiving the record returned by the previous one (the    *)
(* first a clone of the input), and then sends the resulting modified      *)
(* record on to the next handler.                                          *)
C8_PipeForwardsModifiedRecord ==
    (PipeCall /\ call.tried # <<>>) =>
        LET fns == comps[call.c].PipeFns IN
        /\ Len(call.piped) = Len(fns)
        /\ \A j \in 1..Len(fns) : call.piped[j] = Piped(fns, j - 1, call.rec)
        /\ call.sent = <<Piped(fns, Len(fns), call.rec)>>

----------------------------------------------------------------------------
(* Dynamic level: Level() and WithLevel() of the composites                *)
(* (handler/failover.go, unnamed/part_011)                                 *)

(* fileHandler.WithLevel: a new handler object with options.Level = level *)
fileHandler_WithLevel(leaf, level) == [leaf EXCEPT !.level = level]

(* l := slogx.LevelPanic; for each handler that is a DynamicLevelHandler:  *)
(* if handler.Level() < l { l = handler.Level() }                          *)
RECURSIVE levelLoop(_, _, _, _)
levelLoop(hp, handlers, i, l) ==
    IF i > Len(handlers) THEN l
    ELSE LET leaf == hp[handlers[i]] IN
         IF IsDynamicLevelHandler(leaf) /\ fileHandler_Level(leaf) < l
         THEN levelLoop(hp, handlers, i + 1, fileHandler_Level(leaf))
         ELSE levelLoop(hp, handlers, i + 1, l)

failoverHandler_Level(hp, h) == levelLoop(hp, h.handlers, 1, LevelPanic)

roundRobinHandler_Level(hp, h) == levelLoop(hp, h.handlers, 1, LevelPanic)

pipeHandler_Level(hp, h) == levelLoop(hp, h.handlers, 1, LevelPanic)

(* for each handler: hnd := handler; if it is a DynamicLevelHandler,       *)
(* hnd = handler.WithLevel(level), a newly allocated object; append hnd    *)
RECURSIVE withLevelLoop(_, _, _, _, _)
withLevelLoop(hp, handlers, i, level, out) ==
    IF i > Len(handlers) THEN [heap |-> hp, handlers |-> out]
    ELSE LET leaf == hp[handlers[i]] IN
         IF IsDynamicLevelHandler(leaf)
         THEN withLevelLoop(Append(hp, fileHandler_WithLevel(leaf, level)),
                            handlers, i + 1, level, Append(out, Len(hp) + 1))
         ELSE withLevelLoop(hp, handlers, i + 1, level, Append(out, handlers[i]))

(* a WithLevel that stores the level into the existing inner handlers *)
failoverHandler_WithLevel_inPlace(hp, h, level) ==
    [heap |-> [id \in DOMAIN hp |->
                 IF id \in Range(h.handlers) /\ IsDynamicLevelHandler(hp[id])
                 THEN fileHandler_WithLevel(hp[id], level) ELSE hp[id]],
     comp |-> NewComposite("failover", h.handlers, h.ContinueOnError, FALSE,
                           <<>>, <<>>)]

failoverHandler_WithLevel(hp, h, level) ==
    LET r == withLevelLoop(hp, h.handlers, 1, level, <<>>) IN
    [heap |-> r.heap,
     comp |-> NewComposite("failover", r.handlers, h.ContinueOnError, FALSE,
                           <<>>, <<>>)]

roundRobinHandler_WithLevel(hp, h, level) ==
    LET r == withLevelLoop(hp, h.handlers, 1, level, <<>>) IN
    [heap |-> r.heap,
     comp |-> NewComposite("roundrobin", r.handlers, h.ContinueOnError, FALSE,
                           <<>>, <<>>)]

(* with no next handler, or one that is no DynamicLevelHandler, &h: a copy *)
(* of the receiver                                                         *)
pipeHandler_WithLevel(hp, h, level) ==
    IF h.handlers # <<>> /\ IsDynamicLevelHandler(hp[h.handlers[1]])
    THEN [heap |-> Append(hp, fileHandler_WithLevel(hp[h.handlers[1]], level)),
          comp |-> NewComposite("pipe", <<Len(hp) + 1>>, h.ContinueOnError,
                                FALSE, <<>>, h.PipeFns)]
    ELSE [heap |-> hp, comp |-> h]

CompositeLevel(hp, h) ==
    CASE h.kind = "failover" -> failoverHandler_Level(hp, h)
      [] h.kind = "roundrobin" -> roundRobinHandler_Level(hp, h)
      [] h.kind = "pipe" -> pipeHandler_Level(hp, h)

CompositeWithLevel(hp, h, level) ==
    CASE h.kind = "failover" -> failoverHandler_WithLevel(hp, h, level)
      [] h.kind = "roundrobin" -> roundRobinHandler_WithLevel(hp, h, level)
      [] h.kind = "pipe" -> pipeHandler_WithLevel(hp, h, level)

LevelKinds == {"failover", "roundrobin", "pipe"}

(* a caller reads Level() of a composite *)
Level(c) ==
    /\ c \in 1..Len(comps)
    /\ comps[c].kind \in LevelKinds
    /\ call' = [NoCall EXCEPT !.op = "Level", !.c = c,
                              !.level = CompositeLevel(heap, comps[c])]
    /\ UNCHANGED <<heap, comps, futures, mem, procs>>

(* a caller derives a composite with WithLevel(level) *)
WithLevel(c, level) ==
    /\ c \in 1..Len(comps)
    /\ comps[c].kind \in LevelKinds
    /\ Len(comps) < 1 + MaxDerived
    /\ LET r == CompositeWithLevel(heap, comps[c], level) IN
       /\ heap' = r.heap
       /\ comps' = Append(comps, r.comp)
       /\ call' = [NoCall EXCEPT !.op = "WithLevel", !.c = c, !.level = level,
                                 !.res = Len(comps) + 1,
                                 !.preHeap = heap, !.preComps = comps]
    /\ UNCHANGED <<futures, mem, procs>>

(* the inner handlers a level specification is constructed over *)
LevelLeaves ==
    {[kind |-> "file", level |-> LevelDebug],
     [kind |-> "file", level |-> LevelError],
     [kind |-> "file", level |-> LevelPanic + 4],
     [kind |-> "json", level |-> LevelInfo]}

LevelArgs == {LevelDebug, LevelPanic + 4}

InitLevel ==
    /\ heap \in [1..NumHandlers -> LevelLeaves]
    /\ \/ comps = <<NewComposite("failover", Ids, FALSE, FALSE, <<>>, <<>>)>>
       \/ \E li \in {0, 1} :
            comps = <<[NewComposite("roundrobin", Ids, FALSE, FALSE, <<>>, <<>>)
                         EXCEPT !.lastIndex = li]>>
       \/ \E next \in {<<>>, <<1>>} :
            comps = <<NewComposite("pipe", next, FALSE, FALSE, <<>>, <<"SetMsgB">>)>>
    /\ call = NoCall
    /\ futures = <<>>
    /\ mem = <<>>
    /\ procs = <<>>

NextLevel ==
    \/ \E c \in 1..(1 + MaxDerived) : Level(c)
    \/ \E c \in 1..(1 + MaxDerived), level \in LevelArgs : WithLevel(c, level)

SpecLevel == InitLevel /\ [][NextLevel]_vars

(* Claims about the dynamic level *)

(* the levels of the inner handlers of h that implement DynamicLevelHandler *)
DynamicLevels(hp, h) ==
    {hp[h.handlers[i]].level :
        i \in {j \in 1..Len(h.handlers) : IsDynamicLevelHandler(hp[h.handlers[j]])}}

(* C9: Level() of a failover or round-robin composite equals the minimum   *)
(* Level() over all inner handlers that implement the dynamic-level        *)
(* capability, for every combination of inner levels (including levels     *)
(* above Panic), and the least-verbose level when none implements it.      *)
C9_CompositeLevelIsMinimum ==
    (call.op = "Level" /\ comps[call.c].kind \in {"failover", "roundrobin"}) =>
        call.level = IF DynamicLevels(heap, comps[call.c]) = {}
                     THEN LevelPanic
                     ELSE MinOf(DynamicLevels(heap, comps[call.c]))

----------------------------------------------------------------------------
(* Shutdown of a composite handler (failover.go, part_011, part_013,       *)
(* conditional.go)                                                         *)

(* consoleHandler/jsonHandler close their writer and return its error;     *)
(* fileHandler closes its file and always returns nil; nilHandler has no   *)
(* Shutdown method and so is no slogx.ShutdownableHandler.                 *)
ShutdownKinds == {"file", "json", "nil"}

IsShutdownableHandler(leaf) == leaf.kind \in {"file", "json"}

(* The error Shutdown of the inner handler at position pos returns: fail   *)
(* says at which positions closing the writer fails.                       *)
leaf_Shutdown(leaf, pos, fail) ==
    IF leaf.kind = "json" /\ fail[pos] THEN pos ELSE Nil

(* for _, handler := range h.handlers { if sh, ok := ...; ok { if err :=   *)
(* sh.Shutdown(continueOnError); err != nil && !continueOnError { return   *)
(* err } } }: the positions shut down, the error returned from inside the  *)
(* loop (Nil: none) and whether the loop returned early.                   *)
RECURSIVE shutdownLoop(_, _, _, _, _, _)
shutdownLoop(hp, h, continueOnError, fail, i, closed) ==
    IF i > Len(h.handlers) THEN [closed |-> closed, ret |-> Nil, aborted |-> FALSE]
    ELSE IF IsShutdownableHandler(hp[h.handlers[i]])
         THEN LET err == leaf_Shutdown(hp[h.handlers[i]], i, fail) IN
              IF err # Nil /\ ~continueOnError
              THEN [closed |-> Append(closed, i), ret |-> err, aborted |-> TRUE]
              ELSE shutdownLoop(hp, h, continueOnError, fail, i + 1, Append(closed, i))
         ELSE shutdownLoop(hp, h, continueOnError, fail, i + 1, closed)

inner_Shutdown_neverAborts(hp, h, continueOnError, fail) ==
    shutdownLoop(hp, h, TRUE, fail, 1, <<>>)

inner_Shutdown_alwaysAborts(hp, h, continueOnError, fail) ==
    shutdownLoop(hp, h, FALSE, fail, 1, <<>>)

inner_Shutdown(hp, h, continueOnError, fail) ==
    shutdownLoop(hp, h, continueOnError, fail, 1, <<>>)

(* the composites whose Shutdown awaits h.futures after the loop *)
AwaitsFutures(h) == h.kind \in {"multi", "conditional"}

(* h.futures of composite c *)
FuturesOf(c) == {k \in 1..Len(futures) : futures[k].c = c}

(* A caller calls Shutdown(continueOnError) on composite c.  The loop over *)
(* the inner handlers runs first; it either returns its error, or falls    *)
(* through to the loop that awaits the futures (multi, conditional), or    *)
(* returns nil (failover, round-robin).  `pending` is the set of scheduled *)
(* deliveries that had not completed when the inner handlers were shut     *)
(* down.                                                                   *)
Shutdown(c, continueOnError, fail) ==
    /\ c \in 1..Len(comps)
    /\ procs = <<>>
    /\ LET r == inner_Shutdown(heap, comps[c], continueOnError, fail) IN
       procs' = <<[op |-> "Shutdown", c |-> c,
                   continueOnError |-> continueOnError, fail |-> fail,
                   closed |-> r.closed, ret |-> r.ret,
                   futures |-> FuturesOf(c),
                   pending |-> {k \in FuturesOf(c) : ~futures[k].done},
                   pc |-> IF ~r.aborted /\ AwaitsFutures(comps[c])
                          THEN "await" ELSE "returned"]>>
    /\ UNCHANGED <<heap, comps, call, futures, mem>>

(* for _, f := range h.futures { f.Await() }; return nil.  Await blocks    *)
(* until the goroutine of the future has finished.                         *)
Shutdown_await ==
    /\ procs # <<>>
    /\ procs[1].pc = "await"
    /\ \A k \in procs[1].futures : futures[k].done
    /\ procs' = <<[procs[1] EXCEPT !.pc = "returned", !.ret = Nil]>>
    /\ UNCHANGED <<heap, comps, call, futures, mem>>

(* the inner handlers of a shutdown specification: writers that can fail   *)
(* to close, with a nil handler or a file handler among them               *)
ShutdownLayouts ==
    {[i \in 1..NumHandlers |-> "json"],
     [i \in 1..NumHandlers |-> IF i = 2 THEN "nil" ELSE "json"],
     [i \in 1..NumHandlers |-> IF i = 1 THEN "file" ELSE "json"]}

(* the records logged before the shutdown *)
ShutdownRecords == {r \in Records : r.level = LevelInfo}

InitShutdown ==
    /\ \E kinds \in ShutdownLayouts :
         heap = [i \in 1..NumHandlers |-> [kind |-> kinds[i], level |-> LevelInfo]]
    /\ \/ \E async \in BOOLEAN :
            comps = <<NewComposite("multi", Ids, FALSE, async, <<>>, <<>>)>>
       \/ \E async \in BOOLEAN :
            comps = <<NewComposite("conditional", Ids, FALSE, async,
                                   AsyncMatchers, <<>>)>>
       \/ comps = <<NewComposite("failover", Ids, FALSE, FALSE, <<>>, <<>>)>>
       \/ comps = <<NewComposite("roundrobin", Ids, FALSE, FALSE, <<>>, <<>>)>>
    /\ call = NoCall
    /\ futures = <<>>
    /\ mem = <<>>
    /\ procs = <<>>

(* the caller stops logging before it calls Shutdown; the goroutines of    *)
(* the scheduled deliveries keep running                                   *)
NextShutdown ==
    \/ /\ procs = <<>>
       /\ \E rec \in ShutdownRecords : multiHandler_Handle(1, rec, NoOutcome)
    \/ \E k \in 1..MaxFutures : multiHandler_future(k, NoOutcome)
    \/ /\ procs = <<>>
       /\ \E rec \in ShutdownRecords : conditionalHandler_Handle(1, rec, NoOutcome)
    \/ \E k \in 1..MaxFutures : conditionalHandler_future(k, NoOutcome)
    \/ \E coe \in BOOLEAN, fail \in Outcomes : Shutdown(1, coe, fail)
    \/ Shutdown_await

SpecShutdown == InitShutdown /\ [][NextShutdown]_vars

(* Claims about Shutdown *)

ShutdownCalled == procs # <<>> /\ procs[1].op = "Shutdown"

(* positions of the inner handlers that expose Shutdown *)
Shutdownable(c) ==
    {i \in 1..NumHandlers : heap[comps[c].handlers[i]].kind # "nil"}

(* positions whose Shutdown returns an error under fail *)
FailingShutdown(c, fail) ==
    {i \in Shutdownable(c) :
        heap[comps[c].handlers[i]].kind = "json" /\ fail[i]}

(* C11: Shutdown(continueOnError=false) shuts the inner handlers that      *)
(* expose Shutdown down in list order, and at the first inner Shutdown     *)
(* that returns an error the composite returns that error immediately      *)
(* without shutting down any later inner handler.                          *)
C11_ShutdownStopsAtFirstError ==
    (ShutdownCalled /\ ~procs[1].continueOnError) =>
        LET p == procs[1]
            bad == FailingShutdown(p.c, p.fail) IN
        /\ Increasing(p.closed)
        /\ Range(p.closed) =
             {i \in Shutdownable(p.c) : bad = {} \/ i <= MinOf(bad)}
        /\ bad # {} => /\ p.pc = "returned"
                       /\ p.ret = leaf_Shutdown(heap[comps[p.c].handlers[MinOf(bad)]],
                                                MinOf(bad), p.fail)
                       /\ p.ret # Nil

(* an inner Shutdown fails while a later inner handler is still open: the  *)
(* call has returned that error and the later handler was not shut down    *)
C11_Witness ==
    /\ ShutdownCalled
    /\ ~procs[1].continueOnError
    /\ procs[1].pc = "returned"
    /\ procs[1].ret # Nil
    /\ procs[1].closed # <<>>
    /\ \E i \in Shutdownable(procs[1].c) : i \notin Range(procs[1].closed)

(* C12 as claimed: Shutdown(continueOnError=true) is invoked on every      *)
(* inner handler that exposes it even when earlier ones fail, and if any   *)
(* inner Shutdown returned an error the composite returns the last such    *)
(* error.                                                                  *)
C12_ShutdownReturnsLastError ==
    (ShutdownCalled /\ procs[1].continueOnError) =>
        LET p == procs[1]
            bad == FailingShutdown(p.c, p.fail) IN
        /\ Range(p.closed) = Shutdownable(p.c)
        /\ (p.pc = "returned" /\ bad # {}) => p.ret = MaxOf(bad)

(* C12 amended: Shutdown(continueOnError=true) is invoked, in list order,  *)
(* on every inner handler that exposes it even when earlier ones fail, and *)
(* the composite returns nil: the errors of the inner Shutdown calls are   *)
(* dropped.                                                                *)
C12_ShutdownContinuesAndReturnsNil ==
    (ShutdownCalled /\ procs[1].continueOnError) =>
        LET p == procs[1] IN
        /\ Increasing(p.closed)
        /\ Range(p.closed) = Shutdownable(p.c)
        /\ p.pc = "returned" => p.ret = Nil

(* an early inner Shutdown fails, the later ones are still called and the  *)
(* call has returned                                                       *)
C12_Witness ==
    /\ ShutdownCalled
    /\ procs[1].continueOnError
    /\ procs[1].pc = "returned"
    /\ \E i \in FailingShutdown(procs[1].c, procs[1].fail) :
         \E j \in Range(procs[1].closed) : j > i

(* C13: Shutdown of an asynchronous multi or conditional handler awaits    *)
(* all background deliveries scheduled by earlier Handle calls before it   *)
(* calls Shutdown on any inner handler: no inner handler is shut down      *)
(* while a scheduled delivery is still pending.                            *)
C13_ShutdownAwaitsBeforeRelease ==
    (ShutdownCalled /\ comps[procs[1].c].EnableAsync /\ procs[1].closed # <<>>) =>
        procs[1].pending = {}

(* C14: when Shutdown of an asynchronous multi or conditional handler      *)
(* returns, every background delivery scheduled by a Handle call that      *)
(* returned before Shutdown was called has completed, for both values of   *)
(* continueOnError and also when an inner Shutdown returns an error.       *)
C14_ShutdownReturnsAfterDeliveries ==
    (ShutdownCalled /\ comps[procs[1].c].EnableAsync /\ procs[1].pc = "returned") =>
        \A k \in procs[1].futures : futures[k].done

----------------------------------------------------------------------------
(* Attribute model (attr.go, internal/utils/attr.go)                       *)

(* the longest attribute list handed to a function *)
MaxAttrs == 2

(* slog.Attr{Key, Value}: a value is a scalar or a group of attributes *)
Attr(key, value) == [key |-> key, kind |-> "int", val |-> value]

Group(key, attrs) == [key |-> key, kind |-> "group", val |-> attrs]

AttrKeys == {"a", "b"}

AttrValues == {1, 2}

(* a group may carry the key of a scalar attribute *)
GroupKeys == {"g", "a"}

LeafAttrs == {Attr(k, v) : k \in AttrKeys, v \in AttrValues}

(* the member lists of the groups: empty, with a repeated key, out of key  *)
(* order, and with groups nested in them                                   *)
GroupMembers ==
    {<<>>,
     <<Attr("a", 1), Attr("a", 2)>>,
     <<Attr("b", 1), Attr("a", 2)>>,
     <<Group("g", <<Attr("b", 2), Attr("b", 1)>>), Attr("a", 1)>>,
     <<Group("g", <<Attr("a", 1)>>), Group("g", <<Attr("b", 1)>>)>>}

GroupAttrs == {Group(k, m) : k \in GroupKeys, m \in GroupMembers}

AttrUniverse == LeafAttrs \cup GroupAttrs

AttrLists == UNION {[1..n -> AttrUniverse] : n \in 0..MaxAttrs}

(* the attributes of the record and the active group of the handler given  *)
(* to ConsolidateAttrs                                                     *)
RecordAttrLists ==
    {<<>>,
     <<Attr("b", 2)>>,
     <<Attr("a", 2), Attr("a", 1)>>,
     <<Group("g", <<Attr("a", 1)>>), Attr("b", 1)>>}

ActiveGroups == {"", "g"}

(* UniqAttrs: scan from the last attribute backwards, skip keys already    *)
(* seen, append to the result; group values are deduplicated recursively.  *)
(* Value.Resolve() is the identity on values that are no LogValuer.        *)
RECURSIVE uniqLoop(_, _, _, _)
RECURSIVE uniqLoop_firstWins(_, _, _, _)
RECURSIVE UniqAttrs(_)

uniqLoop(attrs, i, seen, result) ==
    IF i < 1 THEN result
    ELSE IF attrs[i].key \in seen THEN uniqLoop(attrs, i - 1, seen, result)
    ELSE LET v == attrs[i] IN
         uniqLoop(attrs, i - 1, seen \cup {v.key},
                  Append(result, IF v.kind = "group"
                                 THEN Group(v.key, UniqAttrs(v.val))
                                 ELSE Attr(v.key, v.val)))

uniqLoop_firstWins(attrs, i, seen, result) ==
    IF i > Len(attrs) THEN result
    ELSE IF attrs[i].key \in seen THEN uniqLoop_firstWins(attrs, i + 1, seen, result)
    ELSE LET v == attrs[i] IN
         uniqLoop_firstWins(attrs, i + 1, seen \cup {v.key},
                  Append(result, IF v.kind = "group"
                                 THEN Group(v.key, UniqAttrs(v.val))
                                 ELSE Attr(v.key, v.val)))

UniqAttrs_firstWins(attrs) == uniqLoop_firstWins(attrs, 1, {}, <<>>)

UniqAttrs(attrs) == uniqLoop(attrs, Len(attrs), {}, <<>>)

(* fmt.Sprintf("%s.%s", attr.Key, groupAttr.Key) *)
Sprintf(groupKey, key) == groupKey \o "." \o key

(* FlattenAttrs: a group is replaced by its flattened members, their keys  *)
(* prefixed with the key of the group; other attributes are appended as    *)
(* they are.                                                               *)
RECURSIVE flattenLoop(_, _, _)
RECURSIVE flattenLoop_oneLevel(_, _, _)
RECURSIVE FlattenAttrs(_)

flattenLoop(attrs, i, result) ==
    IF i > Len(attrs) THEN result
    ELSE IF attrs[i].kind = "group"
         THEN LET groupAttrs == FlattenAttrs(attrs[i].val) IN
              flattenLoop(attrs, i + 1,
                  result \o [j \in 1..Len(groupAttrs) |->
                                [groupAttrs[j] EXCEPT
                                    !.key = Sprintf(attrs[i].key, groupAttrs[j].key)]])
         ELSE flattenLoop(attrs, i + 1, Append(result, attrs[i]))

flattenLoop_oneLevel(attrs, i, result) ==
    IF i > Len(attrs) THEN result
    ELSE IF attrs[i].kind = "group"
         THEN LET groupAttrs == attrs[i].val IN
              flattenLoop_oneLevel(attrs, i + 1,
                  result \o [j \in 1..Len(groupAttrs) |->
                                [groupAttrs[j] EXCEPT
                                    !.key = Sprintf(attrs[i].key, groupAttrs[j].key)]])
         ELSE flattenLoop_oneLevel(attrs, i + 1, Append(result, attrs[i]))

FlattenAttrs_oneLevel(attrs) == flattenLoop_oneLevel(attrs, 1, <<>>)

FlattenAttrs(attrs) == flattenLoop(attrs, 1, <<>>)

(* sort.Strings on the keys in use: byte order *)
KeyRank(key) ==
    CASE key = "a" -> 1
      [] key = "b" -> 2
      [] key = "g" -> 3

RECURSIVE SortStrings(_)
SortStrings(keys) ==
    IF keys = {} THEN <<>>
    ELSE LET first == CHOOSE k \in keys : \A o \in keys : KeyRank(k) <= KeyRank(o) IN
         <<first>> \o SortStrings(keys \ {first})

(* attrMap[attr.Key] = attr.Value over the list: the last value of a key *)
attrMap(attrs, key) ==
    LET last == CHOOSE i \in 1..Len(attrs) :
                    /\ attrs[i].key = key
                    /\ \A j \in (i + 1)..Len(attrs) : attrs[j].key # key IN
    attrs[last]

(* SortAttrs: the keys are collected in a set and sorted, the list is      *)
(* rebuilt from the map, the members of group values sorted recursively.   *)
RECURSIVE SortAttrs(_)
RECURSIVE SortAttrs_flat(_)

SortAttrs_flat(attrs) ==
    LET keys == SortStrings({attrs[i].key : i \in 1..Len(attrs)}) IN
    [j \in 1..Len(keys) |-> attrMap(attrs, keys[j])]

SortAttrs(attrs) ==
    LET keys == SortStrings({attrs[i].key : i \in 1..Len(attrs)}) IN
    [j \in 1..Len(keys) |->
        LET v == attrMap(attrs, keys[j]) IN
        IF v.kind = "group" THEN Group(keys[j], SortAttrs(v.val))
        ELSE Attr(keys[j], v.val)]

(* ConsolidateAttrs: the attributes of the record are appended to the      *)
(* attributes of the handler, as one group attribute when the handler has  *)
(* an active group; the result goes through UniqAttrs.                     *)
ConsolidateAttrs_ignoresGroup(attrs, group, recordAttrs) ==
    UniqAttrs(attrs \o recordAttrs)

ConsolidateAttrs(attrs, group, recordAttrs) ==
    LET result == IF group = ""
                  THEN attrs \o recordAttrs
                  ELSE Append(attrs, Group(group, recordAttrs)) IN
    UniqAttrs(result)

(* a caller applies one of the functions to the attribute list *)
AttrCall(op, attrs, group, recordAttrs, out) ==
    [op |-> op, attrs |-> attrs, group |-> group,
     recordAttrs |-> recordAttrs, out |-> out]

CallUniqAttrs ==
    /\ call' = AttrCall("UniqAttrs", call.attrs, "", <<>>, UniqAttrs(call.attrs))
    /\ UNCHANGED <<heap, comps, futures, mem, procs>>

CallFlattenAttrs ==
    /\ call' = AttrCall("FlattenAttrs", call.attrs, "", <<>>, FlattenAttrs(call.attrs))
    /\ UNCHANGED <<heap, comps, futures, mem, procs>>

CallSortAttrs ==
    /\ call' = AttrCall("SortAttrs", call.attrs, "", <<>>, SortAttrs(call.attrs))
    /\ UNCHANGED <<heap, comps, futures, mem, procs>>

CallConsolidateAttrs(group, recordAttrs) ==
    /\ call' = AttrCall("ConsolidateAttrs", call.attrs, group, recordAttrs,
                        ConsolidateAttrs(call.attrs, group, recordAttrs))
    /\ UNCHANGED <<heap, comps, futures, mem, procs>>

InitAttrs ==
    /\ \E attrs \in AttrLists : call = AttrCall("none", attrs, "", <<>>, <<>>)
    /\ heap = <<>>
    /\ comps = <<>>
    /\ futures = <<>>
    /\ mem = <<>>
    /\ procs = <<>>

NextAttrs ==
    \/ CallUniqAttrs
    \/ CallFlattenAttrs
    \/ CallSortAttrs
    \/ \E group \in ActiveGroups, recordAttrs \in RecordAttrLists :
         CallConsolidateAttrs(group, recordAttrs)

SpecAttrs == InitAttrs /\ [][NextAttrs]_vars

(* Claims about the attribute functions *)

KeysOf(attrs) == {attrs[i].key : i \in 1..Len(attrs)}

DistinctKeys(attrs) ==
    \A i, j \in 1..Len(attrs) : i # j => attrs[i].key # attrs[j].key

(* the last attribute of the list that has the key *)
LastOf(attrs, key) ==
    attrs[MaxOf({i \in 1..Len(attrs) : attrs[i].key = key})]

(* no key occurs twice in the list, nor in the members of any group of it *)
RECURSIVE NoRepeatedKey(_)
NoRepeatedKey(attrs) ==
    /\ DistinctKeys(attrs)
    /\ \A i \in 1..Len(attrs) :
         attrs[i].kind = "group" => NoRepeatedKey(attrs[i].val)

(* C17 as claimed: ConsolidateAttrs with a non-empty active group returns  *)
(* the handler attributes followed by a single group attribute keyed by    *)
(* the active group that contains the record's attributes.  Stated for     *)
(* inputs in which no key is repeated, so that deduplication removes       *)
(* nothing.                                                                *)
C17_ConsolidateAppendsGroup ==
    (/\ call.op = "ConsolidateAttrs"
     /\ call.group # ""
     /\ NoRepeatedKey(Append(call.attrs, Group(call.group, call.recordAttrs)))) =>
        call.out = Append(call.attrs, Group(call.group, call.recordAttrs))

(* C17 amended: ConsolidateAttrs with a non-empty active group returns a   *)
(* single group attribute keyed by the active group that contains the      *)
(* record's attributes (deduplicated), followed by the handler attributes  *)
(* whose key is not the active group, deduplicated and in reverse order:   *)
(* the group attribute comes first.                                        *)
C17_ConsolidateGroupFirst ==
    (call.op = "ConsolidateAttrs" /\ call.group # "") =>
        /\ call.out # <<>>
        /\ call.out[1] = Group(call.group, UniqAttrs(call.recordAttrs))
        /\ Tail(call.out) =
             UniqAttrs(SelectSeq(call.attrs, LAMBDA a : a.key # call.group))
        /\ \A j \in 2..Len(call.out) : call.out[j].key # call.group

(* handler attributes [("a",1)], group "g", record attributes [("b",2)]    *)
(* give [("g",[("b",2)]), ("a",1)]                                         *)
C17_Witness ==
    /\ call.op = "ConsolidateAttrs"
    /\ call.attrs = <<Attr("a", 1)>>
    /\ call.group = "g"
    /\ call.recordAttrs = <<Attr("b", 2)>>
    /\ call.out = <<Group("g", <<Attr("b", 2)>>), Attr("a", 1)>>

(* out holds each key of in once, with the value of its last occurrence,   *)
(* the members of group values deduplicated by the same rule               *)
RECURSIVE IsUniqOf(_, _)
IsUniqOf(in, out) ==
    /\ DistinctKeys(out)
    /\ KeysOf(out) = KeysOf(in)
    /\ \A j \in 1..Len(out) :
         LET last == LastOf(in, out[j].key) IN
         IF last.kind = "group"
         THEN out[j].kind = "group" /\ IsUniqOf(last.val, out[j].val)
         ELSE out[j] = last

(* C18: UniqAttrs is last-write-wins: the output contains each key of the  *)
(* input exactly once, paired with the value of that key's last occurrence *)
(* in the input, and the members of every group value are deduplicated by  *)
(* the same rule recursively.                                              *)
C18_UniqLastWriteWins ==
    call.op = "UniqAttrs" => IsUniqOf(call.attrs, call.out)

(* a key occurs twice with different values, the last one a group whose    *)
(* members repeat a key                                                    *)
C18_Witness ==
    /\ call.op = "UniqAttrs"
    /\ Len(call.attrs) = 2
    /\ call.attrs[1].key = call.attrs[2].key
    /\ call.attrs[1].kind = "int"
    /\ call.attrs[2].kind = "group"
    /\ ~DistinctKeys(call.attrs[2].val)
    /\ Len(call.out) = 1

(* the leaves of the attribute tree in input order, each with the keys on  *)
(* its path joined by "."                                                  *)
RECURSIVE LeavesUnder(_, _)
LeavesUnder(prefix, attrs) ==
    IF attrs = <<>> THEN <<>>
    ELSE LET a == Head(attrs)
             key == IF prefix = "" THEN a.key ELSE prefix \o "." \o a.key IN
         (IF a.kind = "group" THEN LeavesUnder(key, a.val)
          ELSE <<Attr(key, a.val)>>) \o LeavesUnder(prefix, Tail(attrs))

(* C19: the output of FlattenAttrs contains no group-valued attribute,     *)
(* each leaf at path G1...Gn,K appears with key "G1. ... .Gn.K" in input   *)
(* order, non-group top-level attributes are unchanged, and flattening the *)
(* output again gives the output.                                          *)
C19_FlattenIsFlatAndIdempotent ==
    call.op = "FlattenAttrs" =>
        /\ \A j \in 1..Len(call.out) : call.out[j].kind # "group"
        /\ call.out = LeavesUnder("", call.attrs)
        /\ \A i \in 1..Len(call.attrs) :
             call.attrs[i].kind # "group" =>
                 \E j \in 1..Len(call.out) : call.out[j] = call.attrs[i]
        /\ FlattenAttrs(call.out) = call.out

(* a group nested in a group, next to a top-level scalar *)
C19_Witness ==
    /\ call.op = "FlattenAttrs"
    /\ call.attrs = <<Group("g", <<Group("g", <<Attr("b", 2), Attr("b", 1)>>),
                                  Attr("a", 1)>>),
                      Attr("a", 2)>>
    /\ call.out = <<Attr("g.g.b", 2), Attr("g.g.b", 1), Attr("g.a", 1), Attr("a", 2)>>

(* out is in in strictly increasing key order at every level, each key     *)
(* with the value of its last occurrence, groups remaining groups          *)
RECURSIVE IsSortOf(_, _)
IsSortOf(in, out) ==
    /\ \A j \in 1..(Len(out) - 1) : KeyRank(out[j].key) < KeyRank(out[j + 1].key)
    /\ KeysOf(out) = KeysOf(in)
    /\ \A j \in 1..Len(out) :
         LET last == LastOf(in, out[j].key) IN
         IF last.kind = "group"
         THEN out[j].kind = "group" /\ IsSortOf(last.val, out[j].val)
         ELSE out[j] = last

(* C20: SortAttrs returns the attributes in strictly increasing            *)
(* lexicographic key order at every nesting level, with each key appearing *)
(* once and carrying the value of its last occurrence in the input, and    *)
(* without flattening: a group in the input remains a group (with sorted   *)
(* members) in the output.                                                 *)
C20_SortIsOrderedAndKeepsGroups ==
    call.op = "SortAttrs" => IsSortOf(call.attrs, call.out)

(* a group with members out of order, ahead of a scalar with a smaller key *)
C20_Witness ==
    /\ call.op = "SortAttrs"
    /\ call.attrs = <<Group("g", <<Attr("b", 1), Attr("a", 2)>>), Attr("a", 1)>>
    /\ call.out = <<Attr("a", 1), Group("g", <<Attr("a", 2), Attr("b", 1)>>)>>

----------------------------------------------------------------------------
(* Attribute state of the leaf handlers (part_013 jsonHandler; the file,   *)
(* console and HTTP handlers have the same code).  h.attrs is a Go slice:  *)
(* a pointer to a backing array, a length and a capacity.                  *)

(* handler values a program derives, and Handle calls running at once *)
MaxLeaves == 5
MaxCalls == 2

(* attrs: []slog.Attr{} of NewJSONHandler *)
EmptySlice == [arr |-> 0, len |-> 0, cap |-> 0]

(* the zero slog.Attr in the unused capacity of a backing array *)
ZeroAttr == [key |-> "", kind |-> "none", val |-> 0]

(* a backing array that has been garbage collected *)
Freed == <<>>

(* s[0:len(s)] *)
SliceOf(m, s) == [i \in 1..s.len |-> m[s.arr][i]]

(* runtime.growslice for 40-byte elements below 256: the capacity doubles, *)
(* or is what is needed when that is more; rounding up to the allocation   *)
(* size class adds no element at these sizes                               *)
growslice(oldCap, needed) ==
    IF needed > 2 * oldCap THEN needed ELSE 2 * oldCap

(* the place of a newly allocated backing array *)
NewArray(m) ==
    IF \E a \in 1..Len(m) : m[a] = Freed
    THEN MinOf({a \in 1..Len(m) : m[a] = Freed})
    ELSE Len(m) + 1

(* append(s, xs...): within the capacity the elements are written into the *)
(* backing array of s; beyond it a new array is allocated and s copied.    *)
append(m, s, xs) ==
    IF xs = <<>> THEN [mem |-> m, slice |-> s]
    ELSE IF s.len + Len(xs) <= s.cap
    THEN [mem |-> [m EXCEPT ![s.arr] =
                     [i \in 1..s.cap |->
                        IF i > s.len /\ i <= s.len + Len(xs)
                        THEN xs[i - s.len] ELSE m[s.arr][i]]],
          slice |-> [s EXCEPT !.len = s.len + Len(xs)]]
    ELSE LET newCap == growslice(s.cap, s.len + Len(xs))
             old == SliceOf(m, s)
             a == NewArray(m)
             cells == [i \in 1..newCap |->
                         IF i <= s.len THEN old[i]
                         ELSE IF i <= s.len + Len(xs) THEN xs[i - s.len]
                         ELSE ZeroAttr] IN
         [mem |-> IF a > Len(m) THEN Append(m, cells) ELSE [m EXCEPT ![a] = cells],
          slice |-> [arr |-> a, len |-> s.len + Len(xs), cap |-> newCap]]

NewJSONHandler ==
    [kind |-> "json", level |-> LevelInfo, attrs |-> EmptySlice,
     activeGroup |-> "", groups |-> <<>>]

(* jsonHandler.WithAttrs: the new handler takes h.attrs and appends to it *)
jsonHandler_WithAttrs(m, h, attrs) ==
    LET r == IF h.activeGroup = ""
             THEN append(m, h.attrs, attrs)
             ELSE append(m, h.attrs, <<Group(h.activeGroup, attrs)>>) IN
    [mem |-> r.mem, handler |-> [h EXCEPT !.attrs = r.slice]]

(* jsonHandler.WithGroup: the new handler takes h.attrs as it is *)
jsonHandler_WithGroup(h, name) ==
    IF name # ""
    THEN [h EXCEPT !.groups = Append(h.groups, name), !.activeGroup = name]
    ELSE [h EXCEPT !.activeGroup = ""]

(* what ConsolidateAttrs appends to result, one append each: the           *)
(* attributes of the record, or one group attribute holding them           *)
Appended(group, recordAttrs) ==
    IF group = "" THEN recordAttrs ELSE <<Group(group, recordAttrs)>>

RECURSIVE appendEach(_, _, _)
appendEach(m, s, items) ==
    IF items = <<>> THEN [mem |-> m, slice |-> s]
    ELSE LET r == append(m, s, <<Head(items)>>) IN
         appendEach(r.mem, r.slice, Tail(items))

(* the backing arrays no handler value points to are garbage once the     *)
(* call that allocated them has returned                                   *)
Collect(m, hp, live) ==
    [a \in 1..Len(m) |->
        IF \/ \E h \in 1..Len(hp) : hp[h].attrs.arr = a
           \/ a \in live
        THEN m[a] ELSE Freed]

(* a caller derives a handler with h.WithAttrs(attrs) *)
WithAttrs(h, attrs) ==
    /\ h \in 1..Len(heap)
    /\ Len(heap) < MaxLeaves
    /\ procs = <<>>
    /\ LET r == jsonHandler_WithAttrs(mem, heap[h], attrs) IN
       /\ heap' = Append(heap, r.handler)
       /\ mem' = r.mem
    /\ call' = [op |-> "WithAttrs", h |-> h, res |-> Len(heap) + 1,
                attrs |-> attrs, out |-> <<>>]
    /\ UNCHANGED <<comps, futures, procs>>

(* a caller derives a handler with h.WithGroup(name) *)
WithGroup(h, name) ==
    /\ h \in 1..Len(heap)
    /\ Len(heap) < MaxLeaves
    /\ procs = <<>>
    /\ heap' = Append(heap, jsonHandler_WithGroup(heap[h], name))
    /\ call' = [op |-> "WithGroup", h |-> h, res |-> Len(heap) + 1,
                attrs |-> <<>>, out |-> <<>>]
    /\ UNCHANGED <<comps, futures, mem, procs>>

(* jsonHandler.Handle run by one goroutine with no other call under way:   *)
(* ConsolidateAttrs(h.attrs, h.activeGroup, r) sets result := attrs,       *)
(* appends to result and returns UniqAttrs(result), which is formatted and *)
(* written.                                                                *)
jsonHandler_Handle(h, recordAttrs) ==
    /\ h \in 1..Len(heap)
    /\ procs = <<>>
    /\ LET r == appendEach(mem, heap[h].attrs,
                           Appended(heap[h].activeGroup, recordAttrs)) IN
       /\ call' = [op |-> "Handle", h |-> h, res |-> 0, attrs |-> recordAttrs,
                   out |-> UniqAttrs(SliceOf(r.mem, r.slice))]
       /\ mem' = Collect(r.mem, heap, {})
    /\ UNCHANGED <<heap, comps, futures, procs>>

(* the attribute lists handlers are derived with and records carry *)
DerivedAttrs ==
    {<<Attr("a", 1)>>, <<Attr("b", 2)>>, <<Attr("a", 1), Attr("b", 1), Attr("a", 2)>>}

HandledAttrs == {<<Attr("a", 2)>>, <<Attr("b", 1)>>}

GroupNames == {"g"}

(* the attributes of the record logged between derivations *)
LoggedAttrs == {<<Attr("b", 1)>>}

InitDerive ==
    /\ heap = <<NewJSONHandler>>
    /\ mem = <<>>
    /\ comps = <<>>
    /\ call = NoCall
    /\ futures = <<>>
    /\ procs = <<>>

NextDerive ==
    \/ \E h \in 1..MaxLeaves, attrs \in DerivedAttrs : WithAttrs(h, attrs)
    \/ \E h \in 1..MaxLeaves, name \in GroupNames : WithGroup(h, name)
    \/ \E h \in 1..MaxLeaves, recordAttrs \in LoggedAttrs :
         jsonHandler_Handle(h, recordAttrs)

SpecDerive == InitDerive /\ [][NextDerive]_vars

(* Claims about derived handlers *)

(* the attributes handler value h carries in memory m *)
HandlerAttrs(m, hp, h) == SliceOf(m, hp[h].attrs)

(* C15: WithAttrs and WithGroup never change what any already existing     *)
(* handler value emits: after h1 = h.WithAttrs(A) and then                 *)
(* h2 = h.WithAttrs(B), records handled through h carry neither A nor B    *)
(* and records handled through h1 carry A and not B.  Every step that      *)
(* derives a handler leaves the attributes and the active group of every   *)
(* handler value that existed before as they were.                         *)
C15_DerivationKeepsExistingHandlers ==
    [][Len(heap') = Len(heap) + 1 =>
         \A h \in 1..Len(heap) :
            /\ HandlerAttrs(mem', heap', h) = HandlerAttrs(mem, heap, h)
            /\ heap'[h].activeGroup = heap[h].activeGroup]_vars

----------------------------------------------------------------------------
(* Concurrent Handle calls on leaf handlers: each goroutine runs           *)
(* ConsolidateAttrs on its own; there is no lock around h.attrs (the write *)
(* lock is taken after the record has been formatted).  A step is one      *)
(* append or the read of result by UniqAttrs; the unsynchronised accesses  *)
(* to a shared backing array take effect in whatever order the goroutines  *)
(* are scheduled.                                                          *)

(* a goroutine enters h.Handle(r): result := attrs *)
Handle_call(h, recordAttrs) ==
    /\ h \in 1..Len(heap)
    /\ Len(procs) < MaxCalls
    /\ procs' = Append(procs,
                    [op |-> "Handle", h |-> h, recordAttrs |-> recordAttrs,
                     result |-> heap[h].attrs,
                     todo |-> Appended(heap[h].activeGroup, recordAttrs),
                     pc |-> "append", out |-> <<>>])
    /\ UNCHANGED <<heap, comps, call, futures, mem>>

(* result = append(result, attr) *)
Handle_append(p) ==
    /\ p \in 1..Len(procs)
    /\ procs[p].pc = "append"
    /\ procs[p].todo # <<>>
    /\ LET r == append(mem, procs[p].result, <<Head(procs[p].todo)>>) IN
       /\ mem' = r.mem
       /\ procs' = [procs EXCEPT ![p].result = r.slice,
                                 ![p].todo = Tail(procs[p].todo)]
    /\ UNCHANGED <<heap, comps, call, futures>>

(* return UniqAttrs(result); the attributes are formatted and written *)
Handle_uniq(p) ==
    /\ p \in 1..Len(procs)
    /\ procs[p].pc = "append"
    /\ procs[p].todo = <<>>
    /\ procs' = [procs EXCEPT ![p].pc = "done",
                              ![p].out = UniqAttrs(SliceOf(mem, procs[p].result))]
    /\ mem' = Collect(mem, heap,
                      {procs[q].result.arr :
                          q \in {q \in 1..Len(procs) : q # p /\ procs[q].pc # "done"}})
    /\ UNCHANGED <<heap, comps, call, futures>>

InitConcurrent ==
    /\ heap = <<NewJSONHandler>>
    /\ mem = <<>>
    /\ comps = <<>>
    /\ call = NoCall
    /\ futures = <<>>
    /\ procs = <<>>

(* the handlers are derived first, then goroutines log through them *)
NextConcurrent ==
    \/ /\ Len(heap) < 1 + MaxDerived
       /\ \E h \in 1..(1 + MaxDerived), attrs \in DerivedAttrs : WithAttrs(h, attrs)
    \/ /\ Len(heap) < 1 + MaxDerived
       /\ \E h \in 1..(1 + MaxDerived), name \in GroupNames : WithGroup(h, name)
    \/ \E h \in 1..(1 + MaxDerived), recordAttrs \in HandledAttrs :
         Handle_call(h, recordAttrs)
    \/ \E p \in 1..MaxCalls : Handle_append(p)
    \/ \E p \in 1..MaxCalls : Handle_uniq(p)

SpecConcurrent == InitConcurrent /\ [][NextConcurrent]_vars

(* Claims about concurrent Handle calls *)

(* C16: concurrent Handle calls on the same leaf handler value are safe    *)
(* without locking the attribute state: under every interleaving, the      *)
(* attribute list each call formats consists only of the handler's         *)
(* accumulated attributes and that call's own record attributes, never     *)
(* attributes of a record handled concurrently by another call.            *)
C16_HandleFormatsOwnAttrs ==
    \A p \in 1..Len(procs) :
        procs[p].pc = "done" =>
            procs[p].out =
                ConsolidateAttrs(HandlerAttrs(mem, heap, procs[p].h),
                                 heap[procs[p].h].activeGroup,
                                 procs[p].recordAttrs)

----------------------------------------------------------------------------
(* Level text (level.go): String, ShortString, parse and the unmarshal     *)
(* methods.  A text is a sequence of characters.                           *)

(* the largest offset from an anchor among the levels used *)
MaxOffset == 2

LevelMin == -2147483647
LevelTrace == -8
LevelNotice == 2
LevelWarn == 4
LevelFatal == 12
LevelMax == 2147483646

LevelUnknown == LevelMin - 1

LevelDisabled == LevelMax + 1

Anchors ==
    {LevelTrace, LevelDebug, LevelInfo, LevelNotice, LevelWarn, LevelError,
     LevelFatal, LevelPanic}

LevelValues ==
    {a + k : a \in Anchors, k \in (0 - MaxOffset)..MaxOffset}
        \cup {LevelUnknown, LevelMin, LevelMax, LevelDisabled}

DigitChars == <<"0", "1", "2", "3", "4", "5", "6", "7", "8", "9">>

(* the decimal digits of n >= 0 *)
RECURSIVE Itoa(_)
Itoa(n) ==
    IF n < 10 THEN <<DigitChars[n + 1]>>
    ELSE Itoa(n \div 10) \o <<DigitChars[(n % 10) + 1]>>

(* str := func(base, val): base if val == 0, else Sprintf("%s%+d") *)
str(base, val) ==
    IF val = 0 THEN base
    ELSE IF val > 0 THEN base \o <<"+">> \o Itoa(val)
    ELSE base \o <<"-">> \o Itoa(0 - val)

Level_String(l) ==
    CASE l = LevelMin -> str(<<"M", "I", "N">>, 0)
      [] l # LevelMin /\ l = LevelMax -> str(<<"M", "A", "X">>, 0)
      [] l \notin {LevelMin, LevelMax} /\ l <= LevelTrace ->
            str(<<"T", "R", "A", "C", "E">>, l - LevelTrace)
      [] l \notin {LevelMin, LevelMax} /\ l > LevelTrace /\ l <= LevelDebug ->
            str(<<"D", "E", "B", "U", "G">>, l - LevelDebug)
      [] l > LevelDebug /\ l <= LevelInfo ->
            str(<<"I", "N", "F", "O">>, l - LevelInfo)
      [] l > LevelInfo /\ l <= LevelNotice ->
            str(<<"N", "O", "T", "I", "C", "E">>, l - LevelNotice)
      [] l > LevelNotice /\ l <= LevelWarn ->
            str(<<"W", "A", "R", "N">>, l - LevelWarn)
      [] l > LevelWarn /\ l <= LevelError ->
            str(<<"E", "R", "R", "O", "R">>, l - LevelError)
      [] l > LevelError /\ l <= LevelFatal ->
            str(<<"F", "A", "T", "A", "L">>, l - LevelFatal)
      [] l # LevelMax /\ l > LevelFatal ->
            str(<<"P", "A", "N", "I", "C">>, l - LevelPanic)

Level_ShortString(l) ==
    CASE l = LevelMin -> str(<<"M", "I", "N">>, 0)
      [] l # LevelMin /\ l = LevelMax -> str(<<"M", "A", "X">>, 0)
      [] l \notin {LevelMin, LevelMax} /\ l <= LevelTrace ->
            str(<<"T", "R", "C">>, l - LevelTrace)
      [] l \notin {LevelMin, LevelMax} /\ l > LevelTrace /\ l <= LevelDebug ->
            str(<<"D", "B", "G">>, l - LevelDebug)
      [] l > LevelDebug /\ l <= LevelInfo -> str(<<"I", "N", "F">>, l - LevelInfo)
      [] l > LevelInfo /\ l <= LevelNotice -> str(<<"N", "O", "T">>, l - LevelNotice)
      [] l > LevelNotice /\ l <= LevelWarn -> str(<<"W", "R", "N">>, l - LevelWarn)
      [] l > LevelWarn /\ l <= LevelError -> str(<<"E", "R", "R">>, l - LevelError)
      [] l > LevelError /\ l <= LevelFatal -> str(<<"F", "T", "L">>, l - LevelFatal)
      [] l # LevelMax /\ l > LevelFatal -> str(<<"P", "A", "N">>, l - LevelPanic)

(* strings.IndexAny(s, "+-"): the first index of a sign, 0 when none *)
IndexAny(s) ==
    IF \E i \in 1..Len(s) : s[i] \in {"+", "-"}
    THEN MinOf({i \in 1..Len(s) : s[i] \in {"+", "-"}})
    ELSE 0

DigitValue(ch) == (CHOOSE d \in 1..10 : DigitChars[d] = ch) - 1

RECURSIVE DigitsValue(_, _)
DigitsValue(t, acc) ==
    IF t = <<>> THEN acc ELSE DigitsValue(Tail(t), acc * 10 + DigitValue(Head(t)))

(* strconv.Atoi: an optional sign and at least one digit, nothing else *)
Atoi(t) ==
    LET digits == IF t # <<>> /\ t[1] \in {"+", "-"} THEN Tail(t) ELSE t IN
    IF digits = <<>> \/ \E i \in 1..Len(digits) : digits[i] \notin Range(DigitChars)
    THEN [ok |-> FALSE, val |-> 0]
    ELSE [ok |-> TRUE,
          val |-> IF t[1] = "-" THEN 0 - DigitsValue(digits, 0)
                  ELSE DigitsValue(digits, 0)]

LowerChars ==
    <<"a", "b", "c", "d", "e", "f", "g", "h", "i", "j", "k", "l", "m",
      "n", "o", "p", "q", "r", "s", "t", "u", "v", "w", "x", "y", "z">>

UpperChars ==
    <<"A", "B", "C", "D", "E", "F", "G", "H", "I", "J", "K", "L", "M",
      "N", "O", "P", "Q", "R", "S", "T", "U", "V", "W", "X", "Y", "Z">>

(* strings.ToUpper *)
ToUpper(s) ==
    [i \in 1..Len(s) |->
        IF s[i] \in Range(LowerChars)
        THEN UpperChars[CHOOSE k \in 1..Len(LowerChars) : LowerChars[k] = s[i]]
        ELSE s[i]]

NoError == ""

(* the switch of parse: the level of a name, ok false in the default case  *)
Named(level) == [ok |-> TRUE, level |-> level]

LevelOfName(name) ==
    CASE name \in {<<"M", "I", "N">>, <<"U", "N", "K">>,
                   <<"U", "N", "K", "N", "O", "W", "N">>} -> Named(LevelMin)
      [] name \in {<<"M", "A", "X">>, <<"D", "I", "S">>,
                   <<"D", "I", "S", "A", "B", "L", "E", "D">>} -> Named(LevelMax)
      [] name \in {<<"T", "R", "C">>, <<"T", "R", "A", "C", "E">>} -> Named(LevelTrace)
      [] name \in {<<"D", "B", "G">>, <<"D", "E", "B", "U", "G">>} -> Named(LevelDebug)
      [] name \in {<<"I", "N", "F">>, <<"I", "N", "F", "O">>} -> Named(LevelInfo)
      [] name \in {<<"N", "O", "T">>, <<"N", "O", "T", "I", "C", "E">>} -> Named(LevelNotice)
      [] name \in {<<"W", "R", "N">>, <<"W", "A", "R", "N">>,
                   <<"W", "A", "R", "N", "I", "N", "G">>} -> Named(LevelWarn)
      [] name \in {<<"E", "R", "R">>, <<"E", "R", "R", "O", "R">>} -> Named(LevelError)
      [] name \in {<<"F", "T", "L">>, <<"F", "A", "T", "A", "L">>} -> Named(LevelFatal)
      [] name \in {<<"P", "A", "N">>, <<"P", "A", "N", "I", "C">>} -> Named(LevelPanic)
      [] OTHER -> [ok |-> FALSE, level |-> 0]

(* a parse that stores the level of the name before it looks at the rest *)
parse_storesEarly(l, s) ==
    LET i == IndexAny(s)
        name == IF i > 0 THEN SubSeq(s, 1, i - 1) ELSE s
        off == IF i > 0 THEN Atoi(SubSeq(s, i, Len(s))) ELSE [ok |-> TRUE, val |-> 0]
        base == LevelOfName(ToUpper(name)) IN
    IF ~base.ok THEN [err |-> "unknown level", l |-> LevelUnknown]
    ELSE IF ~off.ok THEN [err |-> "failed to parse level", l |-> base.level]
    ELSE [err |-> NoError, l |-> base.level + off.val]

(* a parse that drops the offset *)
parse_dropsOffset(l, s) ==
    LET i == IndexAny(s)
        name == IF i > 0 THEN SubSeq(s, 1, i - 1) ELSE s
        off == IF i > 0 THEN Atoi(SubSeq(s, i, Len(s))) ELSE [ok |-> TRUE, val |-> 0]
        base == LevelOfName(ToUpper(name)) IN
    IF ~off.ok THEN [err |-> "failed to parse level", l |-> l]
    ELSE IF ~base.ok THEN [err |-> "unknown level", l |-> l]
    ELSE [err |-> NoError, l |-> base.level]

(* Level.parse on a variable holding l: the error and the value the        *)
(* variable holds afterwards                                               *)
parse(l, s) ==
    LET i == IndexAny(s)
        name == IF i > 0 THEN SubSeq(s, 1, i - 1) ELSE s
        off == IF i > 0 THEN Atoi(SubSeq(s, i, Len(s))) ELSE [ok |-> TRUE, val |-> 0]
        base == LevelOfName(ToUpper(name)) IN
    IF ~off.ok THEN [err |-> "failed to parse level", l |-> l]
    ELSE IF ~base.ok THEN [err |-> "unknown level", l |-> l]
    ELSE [err |-> NoError, l |-> base.level + off.val]

(* json.Unmarshal(data, &str): data must be a quoted string *)
Quote(s) == <<"\"">> \o s \o <<"\"">>

JSONString(data) ==
    IF /\ Len(data) >= 2
       /\ data[1] = "\""
       /\ data[Len(data)] = "\""
       /\ \A i \in 2..(Len(data) - 1) : data[i] \notin {"\"", "\\"}
    THEN [ok |-> TRUE, str |-> SubSeq(data, 2, Len(data) - 1)]
    ELSE [ok |-> FALSE, str |-> <<>>]

(* texts that are no level: an unknown name, a malformed offset *)
BadTexts ==
    {<<>>,
     <<"B", "O", "G", "U", "S">>,
     <<"B", "O", "G", "U", "S", "+", "1">>,
     <<"+", "1">>,
     <<"I", "N", "F", "O", "+">>,
     <<"I", "N", "F", "O", "+", "x">>,
     <<"I", "N", "F", "O", "+", "1", "-", "2">>,
     <<"I", "N", "F", "O", " ", "1">>}

(* texts of levels that String does not produce *)
OtherTexts ==
    {<<"i", "n", "f", "o", "+", "2">>,
     <<"W", "a", "r", "n", "i", "n", "g">>,
     <<"D", "I", "S">>,
     <<"U", "N", "K", "N", "O", "W", "N">>}

Texts ==
    {Level_String(l) : l \in LevelValues}
        \cup {Level_ShortString(l) : l \in LevelValues}
        \cup BadTexts \cup OtherTexts

(* the texts the variable is unmarshalled from *)
UnmarshalTexts ==
    BadTexts \cup OtherTexts \cup {<<"E", "R", "R", "-", "1">>, <<"P", "A", "N", "I", "C">>}

TextCall(op, s, pre, err, res) ==
    [op |-> op, s |-> s, pre |-> pre, err |-> err, res |-> res]

(* ParseLevel(s): a fresh Level is unmarshalled *)
ParseLevel(s) ==
    /\ LET r == parse(0, s) IN
       call' = TextCall("ParseLevel", s, heap[1].val, r.err,
                        IF r.err # NoError THEN LevelUnknown ELSE r.l)
    /\ UNCHANGED <<heap, comps, futures, mem, procs>>

(* l.String() of the variable *)
String ==
    /\ call' = TextCall("String", Level_String(heap[1].val), heap[1].val,
                        NoError, heap[1].val)
    /\ UNCHANGED <<heap, comps, futures, mem, procs>>

(* l.ShortString() of the variable *)
ShortString ==
    /\ call' = TextCall("ShortString", Level_ShortString(heap[1].val),
                        heap[1].val, NoError, heap[1].val)
    /\ UNCHANGED <<heap, comps, futures, mem, procs>>

(* Level.UnmarshalText(data) on the variable *)
Level_UnmarshalText(s) ==
    /\ heap[1].kind = "Level"
    /\ LET r == parse(heap[1].val, s) IN
       /\ heap' = [heap EXCEPT ![1].val = r.l]
       /\ call' = TextCall("UnmarshalText", s, heap[1].val, r.err, r.l)
    /\ UNCHANGED <<comps, futures, mem, procs>>

(* Level.UnmarshalJSON(data) on the variable *)
Level_UnmarshalJSON(data) ==
    /\ heap[1].kind = "Level"
    /\ LET j == JSONString(data)
           r == IF j.ok THEN parse(heap[1].val, j.str)
                ELSE [err |-> "json", l |-> heap[1].val] IN
       /\ heap' = [heap EXCEPT ![1].val = r.l]
       /\ call' = TextCall("UnmarshalJSON", data, heap[1].val, r.err, r.l)
    /\ UNCHANGED <<comps, futures, mem, procs>>

(* LevelVar.UnmarshalText(data): a local Level is unmarshalled and      *)
(* stored with Set when that succeeds                                      *)
LevelVar_UnmarshalText(s) ==
    /\ heap[1].kind = "LevelVar"
    /\ LET r == parse(0, s) IN
       /\ heap' = [heap EXCEPT ![1].val = IF r.err # NoError THEN @ ELSE r.l]
       /\ call' = TextCall("LevelVar.UnmarshalText", s, heap[1].val, r.err,
                           IF r.err # NoError THEN heap[1].val ELSE r.l)
    /\ UNCHANGED <<comps, futures, mem, procs>>

(* the values the variable is constructed with *)
InitialLevels == {LevelWarn, LevelInfo + 1}

InitLevelText ==
    /\ \E kind \in {"Level", "LevelVar"}, l \in InitialLevels :
         heap = <<[kind |-> kind, val |-> l]>>
    /\ comps = <<>>
    /\ call = TextCall("none", <<>>, 0, NoError, 0)
    /\ futures = <<>>
    /\ mem = <<>>
    /\ procs = <<>>

NextLevelText ==
    \/ \E s \in Texts : ParseLevel(s)
    \/ String
    \/ ShortString
    \/ \E s \in UnmarshalTexts : Level_UnmarshalText(s)
    \/ \E s \in UnmarshalTexts : Level_UnmarshalJSON(Quote(s))
    \/ \E s \in UnmarshalTexts : Level_UnmarshalJSON(s)
    \/ \E s \in UnmarshalTexts : LevelVar_UnmarshalText(s)

SpecLevelText == InitLevelText /\ [][NextLevelText]_vars

(* Claims about the level text *)

(* C21: for every level value l (each named anchor, each anchor plus or    *)
(* minus an integer offset, and the min/max sentinels),                    *)
(* ParseLevel(l.String()) succeeds and returns exactly l.                  *)
C21_LevelTextRoundTrip ==
    \A l \in LevelValues :
        (call.op = "ParseLevel" /\ call.s = Level_String(l)) =>
            /\ call.err = NoError
            /\ call.res = l

(* the text of a level between two anchors has been parsed back *)
C21_Witness ==
    /\ call.op = "ParseLevel"
    /\ call.s = Level_String(LevelInfo + 1)
    /\ call.res = LevelInfo + 1
    /\ call.err = NoError

AnchorName(a) ==
    CASE a = LevelTrace -> <<"T", "R", "A", "C", "E">>
      [] a = LevelDebug -> <<"D", "E", "B", "U", "G">>
      [] a = LevelInfo -> <<"I", "N", "F", "O">>
      [] a = LevelNotice -> <<"N", "O", "T", "I", "C", "E">>
      [] a = LevelWarn -> <<"W", "A", "R", "N">>
      [] a = LevelError -> <<"E", "R", "R", "O", "R">>
      [] a = LevelFatal -> <<"F", "A", "T", "A", "L">>
      [] a = LevelPanic -> <<"P", "A", "N", "I", "C">>

(* the anchor whose range [A, next(A)) holds l *)
AnchorBelow(l) == MaxOf({a \in Anchors : a <= l})

(* C22: each anchor A claims the half-open range from A up to (excluding)  *)
(* the next anchor: a level l with A <= l < next(A) renders as A's name    *)
(* with suffix +(l-A) when l is not exactly A, and as the bare anchor name *)
(* when it is exactly A.                                                   *)
C22_StringNamesAnchorBelow ==
    (/\ call.op = "String"
     /\ call.pre >= LevelTrace
     /\ call.pre \notin {LevelMax, LevelDisabled}) =>
        LET a == AnchorBelow(call.pre) IN
        call.s = IF call.pre = a THEN AnchorName(a)
                 ELSE AnchorName(a) \o <<"+">> \o Itoa(call.pre - a)

(* C23: when UnmarshalText/UnmarshalJSON on a Level, or UnmarshalText on a *)
(* LevelVar, fails (unknown level name or malformed numeric offset), an    *)
(* error is returned and the variable still holds the value it had before  *)
(* the call.                                                               *)
C23_ParseFailureKeepsValue ==
    (call.op \in {"UnmarshalText", "UnmarshalJSON", "LevelVar.UnmarshalText"}) =>
        /\ (call.s \in BadTexts \/ call.s \in {Quote(s) : s \in BadTexts})
               => call.err # NoError
        /\ (call.op = "UnmarshalJSON" /\ ~JSONString(call.s).ok)
               => call.err # NoError
        /\ call.err # NoError => heap[1].val = call.pre

(* a malformed offset after a known name is rejected, the variable keeping *)
(* a value that is neither the zero Level nor the level of the name        *)
C23_Witness ==
    /\ call.op = "UnmarshalText"
    /\ call.s = <<"I", "N", "F", "O", "+", "x">>
    /\ call.err # NoError
    /\ call.pre = LevelWarn
    /\ heap[1].val = LevelWarn

----------------------------------------------------------------------------
(* The five composites over inner handlers with different level            *)
(* thresholds, called synchronously.                                       *)

(* the conditions of a conditional handler that sends every record to      *)
(* every inner handler                                                     *)
NoMatchers == [i \in 1..NumHandlers |-> <<>>]

ThresholdLayouts ==
    {NewComposite("multi", Ids, coe, FALSE, <<>>, <<>>) : coe \in BOOLEAN}
        \cup {NewComposite("conditional", Ids, coe, FALSE, m, <<>>) :
                  coe \in BOOLEAN, m \in {NoMatchers, AsyncMatchers}}
        \cup {NewComposite("pipe", <<1>>, FALSE, FALSE, <<>>, fns) :
                  fns \in {<<>>, <<"SetMsgB">>}}
        \cup {NewComposite("failover", Ids, FALSE, FALSE, <<>>, <<>>),
              NewComposite("roundrobin", Ids, FALSE, FALSE, <<>>, <<>>)}

InitThreshold ==
    /\ InitHeap({"file"}, HandlerLevels)
    /\ \E c \in ThresholdLayouts : comps = <<c>>
    /\ call = NoCall
    /\ futures = <<>>
    /\ mem = <<>>
    /\ procs = <<>>

(* the records handled: one of each level *)
ThresholdRecords == [level : RecordLevels, msg : {"a"}]

NextThreshold ==
    \/ \E rec \in ThresholdRecords, fail \in Outcomes : multiHandler_Handle(1, rec, fail)
    \/ \E rec \in ThresholdRecords, fail \in Outcomes : conditionalHandler_Handle(1, rec, fail)
    \/ \E rec \in ThresholdRecords, fail \in Outcomes : pipeHandler_Handle(1, rec, fail)
    \/ \E rec \in ThresholdRecords, fail \in Outcomes : failoverHandler_Handle(1, rec, fail)
    \/ \E rec \in ThresholdRecords, fail \in Outcomes : roundRobinHandler_Handle(1, rec, fail)

SpecThreshold == InitThreshold /\ [][NextThreshold]_vars

(* Claims about level thresholds in the composites *)

(* the inner handler that received the k-th delivery of the last call *)
Receiver(k) == heap[comps[call.c].handlers[call.tried[k]]]

(* C24: for each of the conditional, failover, multi, pipe and round-robin *)
(* handlers, Handle never delivers a record to an inner handler whose      *)
(* level threshold is above the record's level.                            *)
C24_NoDeliveryBelowThreshold ==
    call.op = "Handle" =>
        \A k \in 1..Len(call.tried) :
            fileHandler_Enabled(Receiver(k), call.sent[k].level)

(* the positions that received the record of the last call and returned    *)
(* no error                                                                *)
Accepted == {k \in 1..Len(call.tried) : ~call.fail[call.tried[k]]}

NoneEnabled ==
    \A i \in 1..Len(comps[call.c].handlers) :
        ~fileHandler_Enabled(heap[comps[call.c].handlers[i]], call.rec.level)

(* C30: failover and round-robin Handle return nil only if exactly one     *)
(* inner handler received the record and returned no error; a nil result   *)
(* is never returned when no inner handler accepted the record.            *)
C30_NilOnlyAfterDelivery ==
    (/\ call.op = "Handle"
     /\ comps[call.c].kind \in {"failover", "roundrobin"}
     /\ call.ret = Nil) =>
        Cardinality(Accepted) = 1

(* C30 as the code has it: failover and round-robin Handle return nil only *)
(* if exactly one inner handler received the record and returned no error  *)
(* (the last one tried), or if no inner handler is enabled for the level   *)
(* of the record, in which case none receives it.                          *)
C30_NilAfterDeliveryOrNoneEnabled ==
    (/\ call.op = "Handle"
     /\ comps[call.c].kind \in {"failover", "roundrobin"}
     /\ call.ret = Nil) =>
        \/ /\ Accepted = {Len(call.tried)}
           /\ call.tried # <<>>
        \/ /\ call.tried = <<>>
           /\ NoneEnabled

(* a round-robin call returns nil after one handler failed and the next    *)
(* one took the record                                                     *)
C30_Witness ==
    /\ call.op = "Handle"
    /\ comps[call.c].kind = "roundrobin"
    /\ call.ret = Nil
    /\ Len(call.tried) = 2
    /\ call.fail[call.tried[1]]
    /\ ~call.fail[call.tried[2]]

----------------------------------------------------------------------------
(* Concurrent Handle calls on one round-robin handler.  The handler has no *)
(* lock: a call reads lastIndex when it builds the rotated list and writes *)
(* it when an inner handler has taken the record, and the steps of         *)
(* different calls interleave.                                             *)

(* handlers := append(h.handlers[h.lastIndex:], h.handlers[:h.lastIndex]...) *)
roundRobinHandler_Handle_rotate(c, rec, fail) ==
    /\ comps[c].kind = "roundrobin"
    /\ Len(procs) < MaxCalls
    /\ procs' = Append(procs,
                    [op |-> "Handle", c |-> c, rec |-> rec, fail |-> fail,
                     rot |-> Rotation(comps[c]), pc |-> "loop",
                     tried |-> <<>>, ret |-> Nil])
    /\ UNCHANGED <<heap, comps, call, futures, mem>>

(* the loop over the rotated list, up to the write of h.lastIndex *)
roundRobinHandler_Handle_loop(p) ==
    /\ p \in 1..Len(procs)
    /\ procs[p].pc = "loop"
    /\ LET r == roundRobinLoop(comps[procs[p].c], procs[p].rec, procs[p].fail,
                               procs[p].rot, 0, <<>>, Nil) IN
       /\ comps' = [comps EXCEPT ![procs[p].c].lastIndex = r.lastIndex]
       /\ procs' = [procs EXCEPT ![p].pc = "done", ![p].tried = r.tried,
                                 ![p].ret = r.ret]
    /\ UNCHANGED <<heap, call, futures, mem>>

InitRoundRobinConcurrent ==
    /\ InitHeap({"file"}, HandlerLevels)
    /\ comps = <<NewComposite("roundrobin", Ids, FALSE, FALSE, <<>>, <<>>)>>
    /\ call = NoCall
    /\ futures = <<>>
    /\ mem = <<>>
    /\ procs = <<>>

NextRoundRobinConcurrent ==
    \/ \E rec \in ThresholdRecords, fail \in Outcomes :
         roundRobinHandler_Handle_rotate(1, rec, fail)
    \/ \E p \in 1..MaxCalls : roundRobinHandler_Handle_loop(p)

SpecRoundRobinConcurrent ==
    InitRoundRobinConcurrent /\ [][NextRoundRobinConcurrent]_vars

(* Claims about concurrent round-robin calls *)

(* the handler as constructed, before any call *)
Constructed(c) == [comps[c] EXCEPT !.lastIndex = 0]

(* the scan orders and the final cursor when call p runs to its end before *)
(* call q starts                                                           *)
Serial(p, q) ==
    LET h0 == Constructed(procs[p].c)
        r1 == roundRobinHandler_handle(h0, procs[p].rec, procs[p].fail)
        h1 == [h0 EXCEPT !.lastIndex = r1.lastIndex]
        r2 == roundRobinHandler_handle(h1, procs[q].rec, procs[q].fail) IN
    [first |-> Rotation(h0), second |-> Rotation(h1), lastIndex |-> r2.lastIndex]

SerialOrder(p, q) ==
    /\ procs[p].rot = Serial(p, q).first
    /\ procs[q].rot = Serial(p, q).second
    /\ comps[procs[p].c].lastIndex = Serial(p, q).lastIndex

(* C25: when two Handle calls run concurrently on the same round-robin     *)
(* handler, the scan order used by each call and the final cursor value    *)
(* equal those of some serial execution of the two calls.                  *)
C25_RoundRobinCallsSerializable ==
    (/\ Len(procs) = 2
     /\ \A p \in 1..Len(procs) : procs[p].op = "Handle" /\ procs[p].pc = "done") =>
        SerialOrder(1, 2) \/ SerialOrder(2, 1)

----------------------------------------------------------------------------
(* Leaf handlers derived under groups: WithGroup with a name and with the  *)
(* empty name, WithAttrs under the active group, records with and without  *)
(* attributes.                                                             *)

(* the names WithGroup is called with *)
WithGroupNames == {"g", ""}

(* the attributes a logger is given with With *)
WithAttrsLists == {<<Attr("a", 1)>>}

(* the attributes of the records: none, or one with another key *)
GroupRecordAttrs == {<<>>, <<Attr("b", 1)>>}

InitGroups ==
    /\ heap = <<NewJSONHandler>>
    /\ mem = <<>>
    /\ comps = <<>>
    /\ call = NoCall
    /\ futures = <<>>
    /\ procs = <<>>

NextGroups ==
    \/ \E h \in 1..MaxLeaves, attrs \in WithAttrsLists : WithAttrs(h, attrs)
    \/ \E h \in 1..MaxLeaves, name \in WithGroupNames : WithGroup(h, name)
    \/ \E h \in 1..MaxLeaves, recordAttrs \in GroupRecordAttrs :
         jsonHandler_Handle(h, recordAttrs)

SpecGroups == InitGroups /\ [][NextGroups]_vars

(* Claims about attributes under groups *)

IsGroupOf(attr, name) == attr.kind = "group" /\ attr.key = name

HasKey(attrs, key) == \E i \in 1..Len(attrs) : attrs[i].key = key

(* the attribute x, added at index i of the handler attributes hattrs      *)
(* under the group name, is replaced by a later one with the same key in   *)
(* that group, given to the handler or carried by the record               *)
Supplied(hattrs, i, name, x, activeGroup, recordAttrs) ==
    \/ \E j \in (i + 1)..Len(hattrs) :
         IsGroupOf(hattrs[j], name) /\ HasKey(hattrs[j].val, x.key)
    \/ activeGroup = name /\ HasKey(recordAttrs, x.key)

(* C26: an attribute added to a leaf handler with WithAttrs while a group  *)
(* G is active appears under G in the consolidated attributes of every     *)
(* record the handler later handles, unless the record itself supplies an  *)
(* attribute with the same key in G; it is still present when the record   *)
(* carries other attributes or none.                                       *)
C26_GroupedHandlerAttrsAreEmitted ==
    call.op = "Handle" =>
        LET hattrs == HandlerAttrs(mem, heap, call.h) IN
        \A i \in 1..Len(hattrs) :
            hattrs[i].kind = "group" =>
                \A k \in 1..Len(hattrs[i].val) :
                    LET x == hattrs[i].val[k] IN
                    \/ Supplied(hattrs, i, hattrs[i].key, x,
                                heap[call.h].activeGroup, call.attrs)
                    \/ \E o \in 1..Len(call.out) :
                         /\ IsGroupOf(call.out[o], hattrs[i].key)
                         /\ \E n \in 1..Len(call.out[o].val) : call.out[o].val[n] = x

(* C27: WithGroup with an empty name on a leaf handler yields a handler    *)
(* equivalent to the receiver: the same accumulated attributes and the     *)
(* same active group.  A WithGroup that added no group name is one called  *)
(* with the empty name.                                                    *)
C27_EmptyGroupNameKeepsHandler ==
    (/\ call.op = "WithGroup"
     /\ heap[call.res].groups = heap[call.h].groups) =>
        /\ HandlerAttrs(mem, heap, call.res) = HandlerAttrs(mem, heap, call.h)
        /\ heap[call.res].activeGroup = heap[call.h].activeGroup

----------------------------------------------------------------------------
(* The futures list of the asynchronous multi and conditional handlers as  *)
(* the slice it is: every handler value has its own slice header           *)
(* h.futures over a backing array in mem, Handle appends to the header of  *)
(* its receiver, and WithAttrs / WithGroup copy the header into the new    *)
(* handler.  The elements of the arrays are indices into futures.          *)

(* NewMultiHandler / NewConditionalHandler with EnableAsync: futures is    *)
(* []async.Future{}                                                        *)
NewAsyncHandler(kind, handlers) ==
    [kind |-> kind, handlers |-> handlers, lastIndex |-> 0,
     ContinueOnError |-> FALSE, EnableAsync |-> TRUE,
     matcherFns |-> IF kind = "conditional" THEN AsyncMatchers ELSE <<>>,
     PipeFns |-> <<>>, futures |-> EmptySlice]

(* the futures in h.futures of handler value c *)
FuturesIn(c) ==
    {SliceOf(mem, comps[c].futures)[i] : i \in 1..comps[c].futures.len}

(* future := async.Exec(...); h.futures = append(h.futures, future), run   *)
(* by one goroutine with no other call under way                           *)
asyncHandler_Handle(c, rec) ==
    /\ c \in 1..Len(comps)
    /\ comps[c].EnableAsync
    /\ Len(futures) < MaxFutures
    /\ futures' = Append(futures, [c |-> c, rec |-> rec, done |-> FALSE,
                                   tried |-> <<>>, ret |-> Nil])
    /\ LET r == append(mem, comps[c].futures, <<Len(futures) + 1>>) IN
       /\ mem' = r.mem
       /\ comps' = [comps EXCEPT ![c].futures = r.slice]
    /\ call' = HandleCall(c, rec, NoOutcome, <<>>, <<>>, <<>>, Nil, NoPrev)
    /\ UNCHANGED <<heap, procs>>

(* the inner handlers derived by handler.WithAttrs / handler.WithGroup for *)
(* the new composite                                                       *)
DerivedInner(hp, h) == [i \in 1..Len(h.handlers) |-> hp[h.handlers[i]]]

(* the composite NewMultiHandler(h.options, handlers...) with              *)
(* handler.futures = h.futures                                             *)
asyncHandler_derive(hp, h) ==
    [h EXCEPT !.handlers = [i \in 1..Len(h.handlers) |-> Len(hp) + i],
              !.lastIndex = 0]

(* multiHandler.WithAttrs / conditionalHandler.WithAttrs *)
asyncHandler_WithAttrs(c) ==
    /\ c \in 1..Len(comps)
    /\ Len(comps) < 1 + MaxDerived
    /\ procs = <<>>
    /\ heap' = heap \o DerivedInner(heap, comps[c])
    /\ comps' = Append(comps, asyncHandler_derive(heap, comps[c]))
    /\ call' = [NoCall EXCEPT !.op = "WithAttrs", !.c = c, !.res = Len(comps) + 1]
    /\ UNCHANGED <<futures, mem, procs>>

(* multiHandler.WithGroup / conditionalHandler.WithGroup *)
asyncHandler_WithGroup(c) ==
    /\ c \in 1..Len(comps)
    /\ Len(comps) < 1 + MaxDerived
    /\ procs = <<>>
    /\ heap' = heap \o DerivedInner(heap, comps[c])
    /\ comps' = Append(comps, asyncHandler_derive(heap, comps[c]))
    /\ call' = [NoCall EXCEPT !.op = "WithGroup", !.c = c, !.res = Len(comps) + 1]
    /\ UNCHANGED <<futures, mem, procs>>

(* Shutdown(continueOnError) on handler value c: the loop over the inner   *)
(* handlers, then the loop that awaits h.futures                           *)
asyncHandler_Shutdown(c, continueOnError, fail) ==
    /\ c \in 1..Len(comps)
    /\ procs = <<>>
    /\ LET r == inner_Shutdown(heap, comps[c], continueOnError, fail) IN
       procs' = <<[op |-> "Shutdown", c |-> c,
                   continueOnError |-> continueOnError, fail |-> fail,
                   closed |-> r.closed, ret |-> r.ret,
                   futures |-> FuturesIn(c),
                   pending |-> {k \in FuturesIn(c) : ~futures[k].done},
                   pc |-> IF ~r.aborted THEN "await" ELSE "returned"]>>
    /\ UNCHANGED <<heap, comps, call, futures, mem>>

InitDerivedFutures ==
    /\ heap = [i \in 1..NumHandlers |-> [kind |-> "json", level |-> LevelInfo]]
    /\ \E kind \in {"multi", "conditional"} : comps = <<NewAsyncHandler(kind, Ids)>>
    /\ call = NoCall
    /\ futures = <<>>
    /\ mem = <<>>
    /\ procs = <<>>

(* loggers are derived from the root logger and log; the root is shut down *)
(* when the logging has stopped                                            *)
NextDerivedFutures ==
    \/ /\ procs = <<>>
       /\ \E c \in 1..(1 + MaxDerived), rec \in ShutdownRecords :
            asyncHandler_Handle(c, rec)
    \/ \E c \in 1..(1 + MaxDerived) : asyncHandler_WithAttrs(c)
    \/ \E c \in 1..(1 + MaxDerived) : asyncHandler_WithGroup(c)
    \/ \E k \in 1..MaxFutures : multiHandler_future(k, NoOutcome)
    \/ \E k \in 1..MaxFutures : conditionalHandler_future(k, NoOutcome)
    \/ \E coe \in BOOLEAN : asyncHandler_Shutdown(1, coe, NoOutcome)
    \/ Shutdown_await

SpecDerivedFutures == InitDerivedFutures /\ [][NextDerivedFutures]_vars

(* Claims about the futures of derived handlers *)

(* C28: background tasks scheduled by Handle calls made through handlers   *)
(* derived from a root handler with WithAttrs / WithGroup have completed   *)
(* when Shutdown called on the root handler returns.                       *)
C28_RootShutdownAwaitsDerived ==
    (/\ procs # <<>>
     /\ procs[1].op = "Shutdown"
     /\ procs[1].c = 1
     /\ procs[1].pc = "returned") =>
        \A k \in 1..Len(futures) : futures[k].done

----------------------------------------------------------------------------
(* Concurrent Handle calls on one asynchronous handler: the append to      *)
(* h.futures is a read of the slice header, a write of the element and a   *)
(* write of the header, with no lock around them.                          *)

(* future := async.Exec(func() any { return h.handle(ctx, r) }) *)
asyncHandler_Handle_exec(c, rec) ==
    /\ c \in 1..Len(comps)
    /\ comps[c].EnableAsync
    /\ Len(procs) < MaxCalls
    /\ Len(futures) < MaxFutures
    /\ futures' = Append(futures, [c |-> c, rec |-> rec, done |-> FALSE,
                                   tried |-> <<>>, ret |-> Nil])
    /\ procs' = Append(procs, [op |-> "Handle", c |-> c,
                               future |-> Len(futures) + 1,
                               slice |-> EmptySlice, pc |-> "read"])
    /\ UNCHANGED <<heap, comps, call, mem>>

(* append(h.futures, future): the header of h.futures is read *)
asyncHandler_Handle_read(p) ==
    /\ p \in 1..Len(procs)
    /\ procs[p].pc = "read"
    /\ procs' = [procs EXCEPT ![p].slice = comps[procs[p].c].futures,
                              ![p].pc = "append"]
    /\ UNCHANGED <<heap, comps, call, futures, mem>>

(* the element is written and the new header stored in h.futures *)
asyncHandler_Handle_append(p) ==
    /\ p \in 1..Len(procs)
    /\ procs[p].pc = "append"
    /\ LET r == append(mem, procs[p].slice, <<procs[p].future>>) IN
       /\ mem' = r.mem
       /\ comps' = [comps EXCEPT ![procs[p].c].futures = r.slice]
    /\ procs' = [procs EXCEPT ![p].pc = "done"]
    /\ UNCHANGED <<heap, call, futures>>

InitConcurrentFutures ==
    /\ heap = [i \in 1..NumHandlers |-> [kind |-> "json", level |-> LevelInfo]]
    /\ \E kind \in {"multi", "conditional"} : comps = <<NewAsyncHandler(kind, Ids)>>
    /\ call = NoCall
    /\ futures = <<>>
    /\ mem = <<>>
    /\ procs = <<>>

NextConcurrentFutures ==
    \/ \E rec \in ShutdownRecords : asyncHandler_Handle_exec(1, rec)
    \/ \E p \in 1..MaxCalls : asyncHandler_Handle_read(p)
    \/ \E p \in 1..MaxCalls : asyncHandler_Handle_append(p)
    \/ \E k \in 1..MaxFutures : multiHandler_future(k, NoOutcome)
    \/ \E k \in 1..MaxFutures : conditionalHandler_future(k, NoOutcome)

SpecConcurrentFutures == InitConcurrentFutures /\ [][NextConcurrentFutures]_vars

(* Claims about concurrent Handle calls on an asynchronous handler *)

(* C29: when several goroutines call Handle concurrently on the same       *)
(* asynchronous multi or conditional handler, every scheduled background   *)
(* task is recorded in the handler's futures list: once the calls have     *)
(* returned, each future they scheduled is in h.futures.                   *)
C29_NoFutureLost ==
    (\A p \in 1..Len(procs) : procs[p].op = "Handle" /\ procs[p].pc = "done") =>
        \A p \in 1..Len(procs) : procs[p].future \in FuturesIn(procs[p].c)

====
